---------------------------- MODULE Spec2Model ----------------------------
(***************************************************************************)
(* Model of the time-series alignment, validation and consolidation engine *)
(* of marketregime_hmm (src/src/classes/data/manager.py, class             *)
(* DataManager).                                                           *)
(*                                                                         *)
(* A table (pandas DataFrame) is a sequence of rows; a row is a record.    *)
(* A table whose date is a column has the field "date"; a table indexed by *)
(* date (after set_index / reindex) has the field "index" instead.         *)
(* A timestamp is an integer count of intraday slots since the epoch       *)
(* (day 0 = Tuesday 2019-12-31, so day 1 = 2020-01-01 is a federal         *)
(* holiday and days 4, 5 are a weekend).  A missing cell is NaN.           *)
(***************************************************************************)
EXTENDS Integers, Sequences, FiniteSets, TLC

VARIABLES
    df,            \* unit calls: the table object the caller holds
    call,          \* unit calls: name of the last method called
    ret,           \* unit calls: value returned by the last call
    origin,        \* unit calls: how the caller obtained df
    frames,        \* unit calls: the two source series of a derived spread
    raised,        \* the exception the last call raised, or NoError
    pc,            \* position of the caller in merge_market_and_macro_data
    data,          \* DataManager.data: the raw tables load_csv stored, by name
    merged_data,   \* DataManager.merged_data
    processed,     \* the table in the files of the processed directory
    log,           \* per series, the cleaning calls made on it in this run
    spread_baa_aaa,    \* locals of merge_market_and_macro_data
    curve_10y_2y,
    spy,
    spy_missing,
    vix,
    raw_dir,       \* the CSV files of the raw directory, by file name
    args,          \* file calls: the arguments of the last call
    fpc,           \* position of the caller in fetch_and_save_fred_data
    series_id,     \* the series fetch_fred_series is fetching
    attempt,       \* locals of fetch_fred_series
    last_err,
    outcomes,      \* how each HTTP request of this fetch_fred_series call ended
    sleeps         \* the time.sleep calls of this fetch_fred_series call

unitVars == <<df, call, ret, origin, frames>>

mergeVars ==
    <<pc, data, merged_data, processed, log,
      spread_baa_aaa, curve_10y_2y, spy, spy_missing, vix>>

fileVars == <<raw_dir, args>>

fetchVars == <<fpc, series_id, attempt, last_err, outcomes, sleeps>>

ioVars == <<fileVars, fetchVars>>

vars == <<unitVars, raised, mergeVars, ioVars>>

-----------------------------------------------------------------------------
(* Bounds of the model                                                     *)

MaxDay == 5          \* calendar window of the unit calls: days 0..MaxDay-1
MaxLen == 3          \* rows of a table passed to a unit call
MaxMergeDay == 4     \* calendar window of the merged files: days 0..MaxMergeDay-1
MaxMacroRows == 1    \* rows of a macro file read by the merge
MaxSPYDays == 2      \* calendar days with bars in the SPY file read by the merge
MaxVIXDays == 2      \* calendar days with bars in the VIX file read by the merge
SlotsPerDay == 2     \* intraday timestamps per calendar day
MaxBars == 3         \* rows of an intraday table passed to group_by_date
MaxBarDays == 2      \* calendar days of those rows: days 0..MaxBarDays-1
MaxFrameRows == 2    \* rows of a source series of a derived spread
MaxFrameDay == 3     \* calendar days of those rows: days 0..MaxFrameDay-1

-----------------------------------------------------------------------------
(* Values                                                                  *)

NaN == 0 - 1000      \* the missing marker (NaN / NaT / None)
None == <<>>         \* no return value

Some(v) == <<v>>     \* an Optional that holds v; None is the empty one

IsNull(x) == x = NaN

NoError == [exc |-> "none", msg |-> "", count |-> 0, dates |-> <<>>]

ValueError(m) == [exc |-> "ValueError", msg |-> m, count |-> 0, dates |-> <<>>]

Returned(v) == [raised |-> NoError, ret |-> v]

Raised(e) == [raised |-> e, ret |-> None]

Min(S) == CHOOSE x \in S : \A y \in S : x <= y

Max(S) == CHOOSE x \in S : \A y \in S : y <= x

Range(s) == {s[i] : i \in 1..Len(s)}

\* the elements of a finite set of integers in ascending order
RECURSIVE SortedSeq(_)
SortedSeq(S) ==
    IF S = {} THEN <<>>
    ELSE LET m == Min(S) IN <<m>> \o SortedSeq(S \ {m})

\* first n elements of a sequence (python s[:n])
Head_n(s, n) == SubSeq(s, 1, IF Len(s) < n THEN Len(s) ELSE n)

-----------------------------------------------------------------------------
(* Calendar Engine: US_BD = CustomBusinessDay(USFederalHolidayCalendar())  *)

Holidays == {1}      \* 2020-01-01, New Year's Day

Weekday(d) == (d + 1) % 7      \* Monday = 0; day 0 is a Tuesday

US_BD(d) == Weekday(d) \notin {5, 6} /\ d \notin Holidays

DayOf(ts) == ts \div SlotsPerDay

Midnight(d) == d * SlotsPerDay

\* Series.dt.normalize(): the timestamp at midnight of the same day
Normalize(ts) == Midnight(DayOf(ts))

\* the end of the range is left out (inclusive="left")
date_range_open_end(start, end) ==
    SortedSeq({t \in start..(end - 1) :
                 /\ t % SlotsPerDay = start % SlotsPerDay
                 /\ US_BD(DayOf(t))})

\* pd.date_range(start, end, freq=US_BD): the business days from start to
\* end inclusive, each at the time of day of start, ascending
date_range(start, end) ==
    SortedSeq({t \in start..end :
                 /\ t % SlotsPerDay = start % SlotsPerDay
                 /\ US_BD(DayOf(t))})


-----------------------------------------------------------------------------
(* Tables                                                                  *)

Columns(t) == IF t = <<>> THEN {} ELSE DOMAIN t[1]

HasDateColumn(t) == "date" \in Columns(t)

\* the value columns of a table: every field but the date key
ValueColumns(t) == Columns(t) \ {"date", "index"}

RemoveAt(s, i) == SubSeq(s, 1, i - 1) \o SubSeq(s, i + 1, Len(s))

\* ascending insertion of x into the ascending sequence s (ties: after)
RECURSIVE Insert(_, _)
Insert(s, x) ==
    IF s = <<>> THEN <<x>>
    ELSE IF x < Head(s) THEN <<x>> \o s
    ELSE <<Head(s)>> \o Insert(Tail(s), x)

\* a sequence of integers in ascending order, repeats kept
RECURSIVE SortInts(_)
SortInts(s) == IF s = <<>> THEN <<>> ELSE Insert(SortInts(Tail(s)), Head(s))

\* the sort key of a row of a table with a date column: a missing date
\* sorts last
DateKey(r) == IF IsNull(r.date) THEN Midnight(MaxDay + MaxMergeDay) ELSE r.date

\* ascending insertion of the row r into the date-sorted table s (ties: after)
RECURSIVE InsertRow(_, _)
InsertRow(s, r) ==
    IF s = <<>> THEN <<r>>
    ELSE IF DateKey(r) < DateKey(Head(s)) THEN <<r>> \o s
    ELSE <<Head(s)>> \o InsertRow(Tail(s), r)

\* df.sort_values("date")
RECURSIVE sort_values(_)
sort_values(t) ==
    IF t = <<>> THEN <<>>
    ELSE InsertRow(sort_values(SubSeq(t, 1, Len(t) - 1)), t[Len(t)])

\* the nearest integer to n / q (q > 0), a tie going to the even one
RoundHalfEven(n, q) ==
    LET f == n \div q
        r == n % q
    IN  IF 2 * r < q THEN f
        ELSE IF 2 * r > q THEN f + 1
        ELSE IF f % 2 = 0 THEN f ELSE f + 1

-----------------------------------------------------------------------------
(* Derived spreads                                                         *)

\* x - y on floats: missing when either operand is missing
Minus(x, y) == IF IsNull(x) \/ IsNull(y) THEN NaN ELSE x - y

\* the positions of the rows of t dated x, in ascending order
RowsDated(t, x) == SortedSeq({i \in 1..Len(t) : t[i].date = x})

\* the rows of an outer merge for one date key: every pairing of a left row
\* and a right row with that date, or the rows of the one table that has
\* the date with the other side's value missing
MergedRowsOf(left, right, x) ==
    LET L == RowsDated(left, x)
        R == RowsDated(right, x)
    IN  IF R = <<>>
        THEN [k \in 1..Len(L) |->
                [date |-> x, value_x |-> left[L[k]].value, value_y |-> NaN]]
        ELSE IF L = <<>>
        THEN [k \in 1..Len(R) |->
                [date |-> x, value_x |-> NaN, value_y |-> right[R[k]].value]]
        ELSE [k \in 1..(Len(L) * Len(R)) |->
                [date    |-> x,
                 value_x |-> left[L[((k - 1) \div Len(R)) + 1]].value,
                 value_y |-> right[R[((k - 1) % Len(R)) + 1]].value]]

\* the rows of the merge for the date keys of the sequence keys, in order
RECURSIVE MergedRows(_, _, _)
MergedRows(left, right, keys) ==
    IF keys = <<>> THEN <<>>
    ELSE MergedRowsOf(left, right, Head(keys))
         \o MergedRows(left, right, Tail(keys))

\* the merge keeps only the dates both tables have (how="inner")
merge_inner(left, right) ==
    MergedRows(left, right,
               SortedSeq({left[i].date : i \in 1..Len(left)}
                         \cap {right[i].date : i \in 1..Len(right)}))

\* pd.merge(left, right, on="date", how="outer", suffixes=...): the date
\* keys of both tables, sorted
merge_outer(left, right) ==
    MergedRows(left, right,
               SortedSeq({left[i].date : i \in 1..Len(left)}
                         \cup {right[i].date : i \in 1..Len(right)}))

\* merge, sort by date, subtract, keep the columns date and value
derive_spread(a, b) ==
    LET m == sort_values(merge_outer(a, b))
    IN  [k \in 1..Len(m) |->
            [date |-> m[k].date, value |-> Minus(m[k].value_x, m[k].value_y)]]

derive_credit_spread(baa, aaa) == derive_spread(baa, aaa)

derive_10y_2y_spread(d10, d2) == derive_spread(d10, d2)

-----------------------------------------------------------------------------
(* Fill Policy                                                             *)

\* DataFrame.ffill(): one pass down the rows, carrying in last the latest
\* non-missing value seen in each column
RECURSIVE pad(_, _)
pad(rows, last) ==
    IF rows = <<>> THEN <<>>
    ELSE LET r == Head(rows)
             f == [c \in DOMAIN r |-> IF IsNull(r[c]) THEN last[c] ELSE r[c]]
         IN  <<f>> \o pad(Tail(rows), f)

\* a backward fill: each missing cell takes the next value below it
bfill(t) ==
    [i \in 1..Len(t) |->
        [c \in DOMAIN t[i] |->
            LET J == {j \in i..Len(t) : ~IsNull(t[j][c])}
            IN  IF J = {} THEN NaN ELSE t[Min(J)][c]]]

\* at most one row is filled after each observation (ffill(limit=1))
ffill_limit1(t) ==
    [i \in 1..Len(t) |->
        [c \in DOMAIN t[i] |->
            IF IsNull(t[i][c]) /\ i > 1 THEN t[i - 1][c] ELSE t[i][c]]]

ffill(t) == IF t = <<>> THEN <<>> ELSE pad(t, [c \in DOMAIN t[1] |-> NaN])

forward_fill_missing_data(t) == Returned(ffill(t))

\* a value held in units of 10^-8: x / 100.0, then round(7)
PercentToDecimal(x) == IF IsNull(x) THEN NaN ELSE 10 * RoundHalfEven(x, 1000)

\* the table percent_to_decimal leaves in t (it assigns the columns in place)
percent_to_decimal(t, columns) ==
    [i \in 1..Len(t) |->
        [c \in DOMAIN t[i] |->
            IF c \in columns THEN PercentToDecimal(t[i][c]) ELSE t[i][c]]]

-----------------------------------------------------------------------------
(* Validator                                                               *)

NegativeMsg == "Anomaly detected: Negative values found in 'value' column."

DuplicateMsg == "Anomaly detected: Duplicate rows found."

NullMsg == "Anomaly detected: Null values found after cleaning."

NaTMsg == "Neither start nor end can be NaT"

ReindexMsg == "cannot reindex on an axis with duplicate labels"

GapMsg == "Anomaly: missing business dates"

\* negative values are accepted
check_anomalies_no_negative(t) ==
    IF \E i, j \in 1..Len(t) : i < j /\ t[i].date = t[j].date
    THEN Raised(ValueError(DuplicateMsg))
    ELSE IF \E i \in 1..Len(t) : \E c \in DOMAIN t[i] : IsNull(t[i][c])
    THEN Raised(ValueError(NullMsg))
    ELSE Returned(t)

check_anomalies_macroeconomic(t) ==
    IF \E i \in 1..Len(t) : ~IsNull(t[i].value) /\ t[i].value < 0
    THEN Raised(ValueError(NegativeMsg))
    ELSE IF \E i, j \in 1..Len(t) : i < j /\ t[i].date = t[j].date
    THEN Raised(ValueError(DuplicateMsg))
    ELSE IF \E i \in 1..Len(t) : \E c \in DOMAIN t[i] : IsNull(t[i][c])
    THEN Raised(ValueError(NullMsg))
    ELSE Returned(t)

\* the dates of a table with a date column, normalized, ascending
SortedDates(t) == SortInts([i \in 1..Len(t) |-> Normalize(t[i].date)])

GapError(missing) ==
    [exc |-> "ValueError", msg |-> GapMsg,
     count |-> Len(missing), dates |-> Head_n(missing, 5)]

\* any difference from the expected calendar is an error
check_time_gaps_exact(t) ==
    IF t = <<>> THEN Raised(ValueError(NaTMsg))
    ELSE LET d == SortedDates(t)
             expected == date_range(d[1], d[Len(d)])
             missing == SortedSeq(Range(expected) \ Range(d))
         IN  IF expected # d THEN Raised(GapError(missing)) ELSE Returned(t)

\* one missing business day is let through (len(missing) > 1)
check_time_gaps_off_by_one(t) ==
    IF t = <<>> THEN Raised(ValueError(NaTMsg))
    ELSE LET d == SortedDates(t)
             expected == date_range(d[1], d[Len(d)])
             missing == SortedSeq(Range(expected) \ Range(d))
         IN  IF expected # d /\ Len(missing) > 1
             THEN Raised(GapError(missing))
             ELSE Returned(t)

\* the sorted working copy d is returned in place of df
check_time_gaps_returns_copy(t) ==
    IF t = <<>> THEN Raised(ValueError(NaTMsg))
    ELSE LET d == SortedDates(t)
             expected == date_range(d[1], d[Len(d)])
             missing == SortedSeq(Range(expected) \ Range(d))
         IN  IF expected # d /\ Len(missing) > 0
             THEN Raised(GapError(missing))
             ELSE Returned(sort_values(t))

check_time_gaps(t) ==
    IF t = <<>> THEN Raised(ValueError(NaTMsg))
    ELSE LET d == SortedDates(t)
             expected == date_range(d[1], d[Len(d)])
             missing == SortedSeq(Range(expected) \ Range(d))
         IN  IF expected # d /\ Len(missing) > 0
             THEN Raised(GapError(missing))
             ELSE Returned(t)

-----------------------------------------------------------------------------
(* Reindexer                                                               *)

\* the row of t (date column) whose normalized date is ts, date as index
IndexedRow(t, ts) ==
    LET i == CHOOSE k \in 1..Len(t) : Normalize(t[k].date) = ts
    IN  [c \in (DOMAIN t[i] \ {"date"}) \cup {"index"} |->
            IF c = "index" THEN ts ELSE t[i][c]]

\* a row of missing values at ts, with the columns of t
EmptyRow(t, ts) ==
    [c \in (Columns(t) \ {"date"}) \cup {"index"} |->
        IF c = "index" THEN ts ELSE NaN]

\* df.reindex(index) of the table t once its date column is its index
reindex(t, index) ==
    [k \in 1..Len(index) |->
        IF \E i \in 1..Len(t) : Normalize(t[i].date) = index[k]
        THEN IndexedRow(t, index[k])
        ELSE EmptyRow(t, index[k])]

\* the index is every calendar day of the span, business day or not
create_rows_every_day(t) ==
    IF t = <<>> THEN Raised(ValueError(NaTMsg))
    ELSE LET d == SortedDates(t)
         IN  IF Cardinality(Range(d)) # Len(d)
             THEN Raised(ValueError(ReindexMsg))
             ELSE Returned(reindex(t,
                     SortedSeq({x \in d[1]..d[Len(d)] :
                                  x % SlotsPerDay = d[1] % SlotsPerDay})))

\* introduced rows copy the previous input row instead of being missing
create_rows_filled(t) ==
    IF t = <<>> THEN Raised(ValueError(NaTMsg))
    ELSE LET d == SortedDates(t)
         IN  IF Cardinality(Range(d)) # Len(d)
             THEN Raised(ValueError(ReindexMsg))
             ELSE Returned(ffill(reindex(t, date_range(d[1], d[Len(d)]))))

\* the series is indexed by its own dates: no row is created
create_rows_not_reindexed(t) ==
    IF t = <<>> THEN Raised(ValueError(NaTMsg))
    ELSE LET d == SortedDates(t)
         IN  IF Cardinality(Range(d)) # Len(d)
             THEN Raised(ValueError(ReindexMsg))
             ELSE Returned(reindex(t, d))

create_rows_for_missing_dates(t) ==
    IF t = <<>> THEN Raised(ValueError(NaTMsg))
    ELSE LET d == SortedDates(t)
             bday_index == date_range(d[1], d[Len(d)])
         IN  IF Cardinality(Range(d)) # Len(d)
             THEN Raised(ValueError(ReindexMsg))
             ELSE Returned(reindex(t, bday_index))

\* the dates of the index of t: normalized from the date column when there
\* is one, else the index as it stands
IndexOf(t) ==
    IF HasDateColumn(t)
    THEN {Normalize(t[i].date) : i \in 1..Len(t)}
    ELSE {t[i].index : i \in 1..Len(t)}

\* the calendar leaves out the weekends only (freq="B")
missing_dates_B(t) ==
    IF t = <<>> THEN Raised(ValueError(NaTMsg))
    ELSE Returned(SortedSeq(
             {x \in Min(IndexOf(t))..Max(IndexOf(t)) :
                 /\ x % SlotsPerDay = 0
                 /\ Weekday(DayOf(x)) \notin {5, 6}} \ IndexOf(t)))

missing_dates(t) ==
    IF t = <<>> THEN Raised(ValueError(NaTMsg))
    ELSE LET bday_index == date_range(Min(IndexOf(t)), Max(IndexOf(t)))
         IN  Returned(SortedSeq(Range(bday_index) \ IndexOf(t)))


-----------------------------------------------------------------------------
(* Resampler                                                               *)

\* the rows of t (by position) whose timestamp falls on calendar day d
GroupOf(t, d) ==
    {i \in 1..Len(t) : ~IsNull(t[i].date) /\ DayOf(t[i].date) = d}

\* the value of the first row of the group, missing or not
AggFirst_row(t, I, c) == IF I = {} THEN NaN ELSE t[Min(I)][c]

\* the non-missing value of the row of the group that is earliest by
\* timestamp: the group sorted by time first
AggFirst_earliest(t, I, c) ==
    LET V == {i \in I : ~IsNull(t[i][c])}
    IN  IF V = {} THEN NaN
        ELSE t[CHOOSE i \in V :
                 \A j \in V : \/ t[i].date < t[j].date
                               \/ (t[i].date = t[j].date /\ i <= j)][c]

\* groupby "first" / "last": the first / last non-missing value of the group
AggFirst(t, I, c) ==
    LET V == {i \in I : ~IsNull(t[i][c])}
    IN  IF V = {} THEN NaN ELSE t[Min(V)][c]

AggLast(t, I, c) ==
    LET V == {i \in I : ~IsNull(t[i][c])}
    IN  IF V = {} THEN NaN ELSE t[Max(V)][c]

\* groupby "max" / "min": over the non-missing values of the group
AggMax(t, I, c) ==
    LET V == {t[i][c] : i \in {j \in I : ~IsNull(t[j][c])}}
    IN  IF V = {} THEN NaN ELSE Max(V)

AggMin(t, I, c) ==
    LET V == {t[i][c] : i \in {j \in I : ~IsNull(t[j][c])}}
    IN  IF V = {} THEN NaN ELSE Min(V)

\* groupby "sum": the non-missing values added up, 0 when there is none
RECURSIVE AggSum(_, _, _)
AggSum(t, I, c) ==
    IF I = {} THEN 0
    ELSE LET i == Min(I)
         IN  (IF IsNull(t[i][c]) THEN 0 ELSE t[i][c]) + AggSum(t, I \ {i}, c)

group_by_date(t) ==
    LET days == SortedSeq({DayOf(t[i].date) :
                              i \in {j \in 1..Len(t) : ~IsNull(t[j].date)}})
    IN  [k \in 1..Len(days) |->
            LET I == GroupOf(t, days[k])
            IN  [index  |-> Midnight(days[k]),
                 open   |-> AggFirst(t, I, "open"),
                 high   |-> AggMax(t, I, "high"),
                 low    |-> AggMin(t, I, "low"),
                 close  |-> AggLast(t, I, "close"),
                 volume |-> AggSum(t, I, "volume")]]

-----------------------------------------------------------------------------
(* Per-series pipelines                                                    *)

\* df.rename(columns={"caldt": "date"}) and the selection of the six columns
price_columns(t) ==
    [i \in 1..Len(t) |->
        [date   |-> IF "caldt" \in DOMAIN t[i] THEN t[i].caldt ELSE t[i].date,
         open   |-> t[i].open,
         high   |-> t[i].high,
         low    |-> t[i].low,
         close  |-> t[i].close,
         volume |-> t[i].volume]]

\* df.reset_index(): the date index becomes the column date again
reset_index(t) ==
    [i \in 1..Len(t) |->
        [c \in (DOMAIN t[i] \ {"index"}) \cup {"date"} |->
            IF c = "date" THEN t[i].index ELSE t[i][c]]]

\* df.set_index("date")
set_index(t) ==
    [i \in 1..Len(t) |->
        [c \in (DOMAIN t[i] \ {"date"}) \cup {"index"} |->
            IF c = "index" THEN t[i].date ELSE t[i][c]]]

SPYColumns == {"open_SPY", "high_SPY", "low_SPY", "close_SPY", "volume_SPY"}

VIXColumns == {"open_VIX", "high_VIX", "low_VIX", "close_VIX", "volume_VIX"}

\* df.columns = [f"{col}_{name}" ...]
suffix_columns(t, name) ==
    [i \in 1..Len(t) |->
        IF name = "SPY"
        THEN [index |-> t[i].index,
              open_SPY |-> t[i].open, high_SPY |-> t[i].high,
              low_SPY |-> t[i].low, close_SPY |-> t[i].close,
              volume_SPY |-> t[i].volume]
        ELSE [index |-> t[i].index,
              open_VIX |-> t[i].open, high_VIX |-> t[i].high,
              low_VIX |-> t[i].low, close_VIX |-> t[i].close,
              volume_VIX |-> t[i].volume]]

clean_price_data(t, name) ==
    LET daily == reset_index(group_by_date(price_columns(t)))
        r == create_rows_for_missing_dates(daily)
    IN  IF r.raised # NoError THEN r
        ELSE Returned(suffix_columns(r.ret, name))

\* df.rename(columns={"value": name})
rename_value(t, name) ==
    [i \in 1..Len(t) |->
        IF name = "credit_spread_baa_aaa"
        THEN [index |-> t[i].index, credit_spread_baa_aaa |-> t[i].value]
        ELSE [index |-> t[i].index, yield_curve_10y2y |-> t[i].value]]

\* the missing values are filled backward before the checks
clean_macro_data_bfill(t, name, check_gaps) ==
    LET filled == bfill(t)
        gaps == IF check_gaps THEN check_time_gaps(filled) ELSE Returned(filled)
        decimal == percent_to_decimal(filled, {"value"})
        checked == check_anomalies_macroeconomic(decimal)
    IN  IF gaps.raised # NoError THEN gaps
        ELSE IF checked.raised # NoError THEN checked
        ELSE Returned(rename_value(set_index(decimal), name))

clean_macro_data(t, name, check_gaps) ==
    LET filled == ffill(t)
        gaps == IF check_gaps THEN check_time_gaps(filled) ELSE Returned(filled)
        decimal == percent_to_decimal(filled, {"value"})
        checked == check_anomalies_macroeconomic(decimal)
    IN  IF gaps.raised # NoError THEN gaps
        ELSE IF checked.raised # NoError THEN checked
        ELSE Returned(rename_value(set_index(decimal), name))

-----------------------------------------------------------------------------
(* Consolidator                                                            *)

IndexSet(t) == {t[i].index : i \in 1..Len(t)}

\* the row of the join at key ts: the cells of the row of left and of the
\* row of right indexed ts, missing where the table has no such row
JoinedRow(left, right, lcols, rcols, ts) ==
    LET L == {i \in 1..Len(left) : left[i].index = ts}
        R == {i \in 1..Len(right) : right[i].index = ts}
    IN  [c \in {"index"} \cup lcols \cup rcols |->
            IF c = "index" THEN ts
            ELSE IF c \in lcols
                 THEN IF L = {} THEN NaN ELSE left[CHOOSE i \in L : TRUE][c]
                 ELSE IF R = {} THEN NaN ELSE right[CHOOSE i \in R : TRUE][c]]

\* the keys of left in their order, then the keys only right has, unsorted
outer_join_unsorted(left, right, lcols, rcols) ==
    LET only == SelectSeq([i \in 1..Len(right) |-> right[i].index],
                          LAMBDA x : x \notin IndexSet(left))
        index == [i \in 1..Len(left) |-> left[i].index] \o only
    IN  [k \in 1..Len(index) |-> JoinedRow(left, right, lcols, rcols, index[k])]

\* left.join(right, how="outer") of two tables with unique indexes: one row
\* per key of the union of the two indexes, the keys sorted
outer_join(left, right, lcols, rcols) ==
    LET index == SortedSeq(IndexSet(left) \cup IndexSet(right))
    IN  [k \in 1..Len(index) |-> JoinedRow(left, right, lcols, rcols, index[k])]

\* df.drop(labels, axis=0, errors="ignore")
drop(t, labels) == SelectSeq(t, LAMBDA r : r.index \notin Range(labels))

\* df.dropna(): the rows without a missing cell
dropna(t) ==
    SelectSeq(t, LAMBDA r : \A c \in DOMAIN r \ {"index"} : ~IsNull(r[c]))

\* the three joins of merge_market_and_macro_data
join_all(s, v, curve, spread) ==
    outer_join(
        outer_join(
            outer_join(s, v, SPYColumns, VIXColumns),
            curve, SPYColumns \cup VIXColumns, {"yield_curve_10y2y"}),
        spread, SPYColumns \cup VIXColumns \cup {"yield_curve_10y2y"},
        {"credit_spread_baa_aaa"})

\* the table merge_market_and_macro_data returns
merge_tables(s, missing, v, curve, spread) ==
    dropna(ffill(drop(join_all(s, v, curve, spread), missing)))

-----------------------------------------------------------------------------
(* Unit calls: a caller holds one table df of a macro series (columns date *)
(* and value) and calls the cleaning methods on it, as the tests do.       *)

Vals == {NaN, 0 - 1, 1}

UnitDates == {Midnight(d) : d \in 0..(MaxDay - 1)}

UnitRows == [date : UnitDates, value : Vals]

UnitTables == UNION {[1..n -> UnitRows] : n \in 0..MaxLen}

Input == [by |-> "input", date |-> NaN]

\* DataManager.__init__, no call of merge_market_and_macro_data begun
InitManager ==
    /\ pc = "idle"
    /\ data = <<>>
    /\ merged_data = None
    /\ processed = None
    /\ log = <<>>
    /\ spread_baa_aaa = None
    /\ curve_10y_2y = None
    /\ spy = None
    /\ spy_missing = None
    /\ vix = None
    /\ raw_dir = <<>>
    /\ args = None
    /\ fpc = "idle"
    /\ series_id = ""
    /\ attempt = 0
    /\ last_err = None
    /\ outcomes = <<>>
    /\ sleeps = <<>>

InitUnit ==
    /\ df \in UnitTables
    /\ call = "none"
    /\ ret = None
    /\ raised = NoError
    /\ origin = Input
    /\ frames = None
    /\ InitManager

\* the caller calls method name, whose outcome on df is r
Call(name, r) ==
    /\ call' = name
    /\ ret' = r.ret
    /\ raised' = r.raised
    /\ UNCHANGED <<df, origin, frames, mergeVars, ioVars>>

ForwardFillMissingData ==
    Call("forward_fill_missing_data", forward_fill_missing_data(df))

CheckAnomaliesMacroeconomic ==
    Call("check_anomalies_macroeconomic", check_anomalies_macroeconomic(df))

CheckTimeGaps == Call("check_time_gaps", check_time_gaps(df))

CreateRowsForMissingDates ==
    Call("create_rows_for_missing_dates", create_rows_for_missing_dates(df))

MissingDates == Call("missing_dates", missing_dates(df))

\* percent_to_decimal assigns the columns of the table it is given and
\* returns that table: the caller's df is the converted table afterwards
PercentToDecimalCall ==
    /\ call' = "percent_to_decimal"
    /\ df' = percent_to_decimal(df, {"value"})
    /\ ret' = percent_to_decimal(df, {"value"})
    /\ raised' = NoError
    /\ UNCHANGED <<origin, frames, mergeVars, ioVars>>

\* df = method(df): the caller goes on with the table forward fill returned
Rebind ==
    /\ call = "forward_fill_missing_data"
    /\ raised = NoError
    /\ df' = ret
    /\ origin' = [by |-> call, date |-> NaN]
    /\ call' = "none"
    /\ ret' = None
    /\ UNCHANGED <<raised, frames, mergeVars, ioVars>>

\* df2 = df.drop(i): the caller removes one row of a series that passed
\* check_time_gaps
DropRow ==
    /\ call = "check_time_gaps"
    /\ raised = NoError
    /\ \E i \in 1..Len(df) :
         /\ df' = RemoveAt(df, i)
         /\ origin' = [by |-> "drop", date |-> df[i].date]
    /\ call' = "none"
    /\ ret' = None
    /\ UNCHANGED <<raised, frames, mergeVars, ioVars>>

Next ==
    \/ ForwardFillMissingData
    \/ CheckAnomaliesMacroeconomic
    \/ CheckTimeGaps
    \/ CreateRowsForMissingDates
    \/ MissingDates
    \/ PercentToDecimalCall
    \/ Rebind
    \/ DropRow

Spec == InitUnit /\ [][Next]_vars

-----------------------------------------------------------------------------
(* Fill calls: the same caller with a raw table read from a CSV file, in   *)
(* which a date cell can be blank as well as a value cell.                 *)

RawRows == [date : UnitDates \cup {NaN}, value : Vals]

RawTables == UNION {[1..n -> RawRows] : n \in 0..MaxLen}

InitFill ==
    /\ df \in RawTables
    /\ call = "none"
    /\ ret = None
    /\ raised = NoError
    /\ origin = Input
    /\ frames = None
    /\ InitManager

NextFill ==
    \/ ForwardFillMissingData
    \/ CheckAnomaliesMacroeconomic
    \/ Rebind

SpecFill == InitFill /\ [][NextFill]_vars

-----------------------------------------------------------------------------
(* Macro cleaning calls: the caller holds the raw table of a macro file    *)
(* with at least one observation and calls clean_macro_data on it, with or *)
(* without the gap check.  A value is blank, a percentage below zero that  *)
(* rounds to zero, one that stays below zero, or one above zero.  The gap  *)
(* check is asked for on a file whose date cells are all filled, as those  *)
(* of a fetched series are.                                                *)

MaxCleanRows == 2    \* rows of a macro file in the cleaning calls

CleanVals == {NaN, 0 - 1, 0 - 2000, 1500}

CleanRows == [date : UnitDates \cup {NaN}, value : CleanVals]

CleanTables == UNION {[1..n -> CleanRows] : n \in 1..MaxCleanRows}

InitClean ==
    /\ df \in CleanTables
    /\ call = "none"
    /\ ret = None
    /\ raised = NoError
    /\ origin = Input
    /\ frames = None
    /\ InitManager

CleanMacroData ==
    /\ \E check_gaps \in BOOLEAN :
         /\ check_gaps => \A i \in 1..Len(df) : ~IsNull(df[i].date)
         /\ args' = [name |-> "credit_spread_baa_aaa",
                     check_gaps |-> check_gaps]
         /\ \E r \in {clean_macro_data(df, "credit_spread_baa_aaa",
                                        check_gaps)} :
               /\ ret' = r.ret
               /\ raised' = r.raised
    /\ call' = "clean_macro_data"
    /\ UNCHANGED <<df, origin, frames, mergeVars, raw_dir, fetchVars>>

NextClean == CleanMacroData

SpecClean == InitClean /\ [][NextClean]_vars


-----------------------------------------------------------------------------
(* Resampling calls: the caller holds an intraday table (columns date,     *)
(* open, high, low, close, volume; any cell can be blank) and calls        *)
(* group_by_date on it.                                                    *)

BarVals == {NaN, 1, 2}

BarTimes == 0..(Midnight(MaxBarDays) - 1)

\* a row of an intraday file at time ts: the five columns hold different
\* values derived from v, or are all blank
IntradayBar(ts, v) ==
    IF IsNull(v)
    THEN [date |-> ts, open |-> NaN, high |-> NaN, low |-> NaN,
          close |-> NaN, volume |-> NaN]
    ELSE [date |-> ts, open |-> v + 10, high |-> v + 30, low |-> v,
          close |-> v + 20, volume |-> v + 40]

IntradayRows == {IntradayBar(ts, v) : ts \in BarTimes \cup {NaN}, v \in BarVals}

IntradayTables == UNION {[1..n -> IntradayRows] : n \in 0..MaxBars}

InitGroup ==
    /\ df \in IntradayTables
    /\ call = "none"
    /\ ret = None
    /\ raised = NoError
    /\ origin = Input
    /\ frames = None
    /\ InitManager

GroupByDate == Call("group_by_date", Returned(group_by_date(df)))

NextGroup == GroupByDate

SpecGroup == InitGroup /\ [][NextGroup]_vars

-----------------------------------------------------------------------------
(* Derivation calls: the caller holds the two fetched series of a spread   *)
(* (one row per date, a value can be missing) and derives the spread.      *)

FrameDates == {Midnight(d) : d \in 0..(MaxFrameDay - 1)}

\* a fetched series whose observed values are all v
FramesOf(v) ==
    {t \in UNION {[1..n -> [date : FrameDates, value : {NaN, v}]] :
                     n \in 0..MaxFrameRows} :
        \A i, j \in 1..Len(t) : i # j => t[i].date # t[j].date}

InitDerive ==
    /\ df = <<>>
    /\ call = "none"
    /\ ret = None
    /\ raised = NoError
    /\ origin = Input
    /\ frames \in [first : FramesOf(5), second : FramesOf(2)]
    /\ InitManager

\* a call on the two series, whose outcome is r
CallOnFrames(name, r) ==
    /\ call' = name
    /\ ret' = r
    /\ raised' = NoError
    /\ UNCHANGED <<df, origin, frames, mergeVars, ioVars>>

DeriveCreditSpread ==
    CallOnFrames("_derive_credit_spread",
                 derive_credit_spread(frames.first, frames.second))

Derive10y2ySpread ==
    CallOnFrames("_derive_10y_2y_spread",
                 derive_10y_2y_spread(frames.first, frames.second))

NextDerive ==
    \/ DeriveCreditSpread
    \/ Derive10y2ySpread

SpecDerive == InitDerive /\ [][NextDerive]_vars

-----------------------------------------------------------------------------
(* merge_market_and_macro_data: the master pipeline, one step per series,  *)
(* the last one with the joins.  Each step reads its file from the raw directory *)
(* (any file of the bounded families below), stores the raw table in data  *)
(* as load_csv does, and cleans it; an exception ends the call.            *)

MergeDays == 0..(MaxMergeDay - 1)

MacroVals == {NaN, 1500}

MacroRows == [date : {Midnight(d) : d \in MergeDays}, value : MacroVals]

\* a macro file as fetch_and_save_fred_data saved it from a derived spread:
\* one row per date, in ascending date order; a value can be blank
MacroFiles ==
    {f \in UNION {[1..n -> MacroRows] : n \in 0..MaxMacroRows} :
        \A i \in 1..(Len(f) - 1) : f[i].date < f[i + 1].date}

\* the intraday bar at timestamp ts of a price file
Bar(ts) ==
    [caldt |-> ts, open |-> ts + 1, high |-> ts + 2, low |-> ts,
     close |-> ts + 1, volume |-> 1]

\* a 1-minute file: a bar at every slot of each day of D, in time order
IntradayFile(D) ==
    LET ts == SortedSeq({t \in 0..(Midnight(MaxMergeDay) - 1) : DayOf(t) \in D})
    IN  [i \in 1..Len(ts) |-> Bar(ts[i])]

\* a 1-day file: one bar at midnight of each day of D, in time order
DailyFile(D) ==
    LET ts == SortedSeq({Midnight(d) : d \in D})
    IN  [i \in 1..Len(ts) |-> Bar(ts[i])]

SPYFiles ==
    {IntradayFile(D) : D \in {E \in SUBSET MergeDays : Cardinality(E) <= MaxSPYDays}}

VIXFiles ==
    {DailyFile(D) : D \in {E \in SUBSET MergeDays : Cardinality(E) <= MaxVIXDays}}

InitMerge ==
    /\ df = <<>>
    /\ call = "none"
    /\ ret = None
    /\ raised = NoError
    /\ origin = Input
    /\ frames = None
    /\ InitManager

\* load_csv: self.data[store_name] = df
Store(name, t) ==
    data' = [n \in DOMAIN data \cup {name} |-> IF n = name THEN t ELSE data[n]]

\* the exception is caught inside the call, which ends without an error
Raise_caught(e) ==
    /\ pc' = "raised"
    /\ raised' = NoError

\* the exception e leaves merge_market_and_macro_data: nothing catches it
Raise(e) ==
    /\ pc' = "raised"
    /\ raised' = e

\* the cleaning calls clean_macro_data makes on the table t, in order, up to
\* and including the one that raises
clean_macro_calls(t, check_gaps) ==
    <<"forward_fill_missing_data">>
    \o (IF check_gaps THEN <<"check_time_gaps">> ELSE <<>>)
    \o (IF check_gaps /\ check_time_gaps(ffill(t)).raised # NoError
        THEN <<>>
        ELSE <<"percent_to_decimal", "check_anomalies_macroeconomic">>)

\* the cleaning calls clean_price_data makes, in order
clean_price_calls == <<"group_by_date", "create_rows_for_missing_dates">>

\* the calls made on series name so far in this run are calls
Logged(name, calls) ==
    log' = [n \in DOMAIN log \cup {name} |-> IF n = name THEN calls ELSE log[n]]

\* the call goes on in merge_market_and_macro_data: the unit caller's table
\* and the processed directory are not touched
InMerge ==
    /\ call' = "merge_market_and_macro_data"
    /\ UNCHANGED <<df, ret, origin, frames, processed, ioVars>>

\* lines 413-416, the file being any one of the family F
LoadCreditSpread(F) ==
    /\ pc = "idle"
    /\ \E f \in F :
         \E r \in {clean_macro_data(f, "credit_spread_baa_aaa", FALSE)} :
             /\ Store("credit_spread_baa_aaa", f)
             /\ Logged("credit_spread_baa_aaa", clean_macro_calls(f, FALSE))
             /\ IF r.raised = NoError
                THEN /\ spread_baa_aaa' = r.ret
                     /\ pc' = "curve"
                     /\ raised' = NoError
                ELSE /\ Raise(r.raised)
                     /\ UNCHANGED spread_baa_aaa
    /\ InMerge
    /\ UNCHANGED <<merged_data, curve_10y_2y, spy, spy_missing, vix>>

\* lines 418-421
LoadYieldCurve(F) ==
    /\ pc = "curve"
    /\ \E f \in F :
         \E r \in {clean_macro_data(f, "yield_curve_10y2y", TRUE)} :
             /\ Store("yield_curve_10y_2y_spread", f)
             /\ Logged("yield_curve_10y2y", clean_macro_calls(f, TRUE))
             /\ IF r.raised = NoError
                THEN /\ curve_10y_2y' = r.ret
                     /\ pc' = "spy"
                     /\ UNCHANGED raised
                ELSE /\ Raise(r.raised)
                     /\ UNCHANGED curve_10y_2y
    /\ InMerge
    /\ UNCHANGED <<merged_data, spread_baa_aaa, spy, spy_missing, vix>>

\* lines 423-427
LoadSPY(F) ==
    /\ pc = "spy"
    /\ \E f \in F :
         \E r \in {clean_price_data(f, "SPY")} :
             /\ Store("SPY_1min_20231027_20251027", f)
             /\ Logged("SPY", clean_price_calls)
             /\ IF r.raised = NoError
                THEN \E m \in {missing_dates(r.ret)} :
                        /\ spy' = r.ret
                        /\ IF m.raised = NoError
                           THEN /\ spy_missing' = m.ret
                                /\ pc' = "vix"
                                /\ UNCHANGED raised
                           ELSE /\ Raise(m.raised)
                                /\ UNCHANGED spy_missing
                ELSE /\ Raise(r.raised)
                     /\ UNCHANGED <<spy, spy_missing>>
    /\ InMerge
    /\ UNCHANGED <<merged_data, spread_baa_aaa, curve_10y_2y, vix>>

\* lines 429-448: the last series, then the joins, the fill and the drop;
\* nothing between them can raise
LoadVIXAndMerge(F) ==
    /\ pc = "vix"
    /\ \E f \in F :
         \E r \in {clean_price_data(f, "VIX")} :
             /\ Store("^VIX_1day_20231027_20251027", f)
             /\ IF r.raised = NoError
                THEN /\ vix' = r.ret
                     /\ merged_data' =
                          Some(merge_tables(spy, spy_missing, r.ret,
                                            curve_10y_2y, spread_baa_aaa))
                     /\ log' = [n \in DOMAIN log \cup {"VIX"} |->
                                  (IF n = "VIX" THEN clean_price_calls
                                   ELSE log[n]) \o <<"join">>]
                     /\ pc' = "done"
                     /\ UNCHANGED raised
                ELSE /\ Raise(r.raised)
                     /\ Logged("VIX", clean_price_calls)
                     /\ UNCHANGED <<vix, merged_data>>
    /\ InMerge
    /\ UNCHANGED <<spread_baa_aaa, curve_10y_2y, spy, spy_missing>>

ProcessCreditSpread == LoadCreditSpread(MacroFiles)

ProcessYieldCurve == LoadYieldCurve(MacroFiles)

ProcessSPY == LoadSPY(SPYFiles)

ProcessVIXAndMerge == LoadVIXAndMerge(VIXFiles)

NextMerge ==
    \/ ProcessCreditSpread
    \/ ProcessYieldCurve
    \/ ProcessSPY
    \/ ProcessVIXAndMerge

SpecMerge == InitMerge /\ [][NextMerge]_vars

-----------------------------------------------------------------------------
(* Sessions: one DataManager over its life.  The caller runs the merge on  *)
(* the files of the raw directory, saves, asks for the data info, and runs *)
(* the merge again after the files have changed.  The files are samples of *)
(* the families above: accepted ones and ones a validator rejects.         *)

NoDataToSaveMsg == "No data to save. Run merge_market_and_macro_data() first."

NoDataMsg == "No data available."

\* the write is made although there is no table: an empty file
save_processed_data_unguarded(a, merged, files) ==
    LET t == IF a = None THEN merged ELSE a
    IN  [raised |-> NoError, ret |-> None,
         files |-> IF t = None THEN Some(<<>>) ELSE t]

\* save_processed_data(df): a is the optional argument, merged is
\* self.merged_data, files the table in the processed directory before the
\* call; the result also has the table in the directory after the call
save_processed_data(a, merged, files) ==
    LET t == IF a = None THEN merged ELSE a
    IN  IF t = None
        THEN [raised |-> ValueError(NoDataToSaveMsg), ret |-> None,
              files |-> files]
        ELSE [raised |-> NoError, ret |-> None, files |-> t]

\* get_data_info(df): the shape and the date range of the table
get_data_info(a, merged) ==
    LET t == IF a = None THEN merged ELSE a
    IN  IF t = None THEN Raised(ValueError(NoDataMsg))
        ELSE Returned(
               [rows |-> Len(t[1]),
                date_range |->
                    IF t[1] = <<>> THEN <<NaN, NaN>>
                    ELSE IF "index" \in DOMAIN t[1][1]
                    THEN <<Min(IndexSet(t[1])), Max(IndexSet(t[1]))>>
                    ELSE <<0, Len(t[1]) - 1>>])

SampleSpreadFiles ==
    {<<[date |-> Midnight(0), value |-> 1500]>>,
     <<[date |-> Midnight(0), value |-> 0 - 1500]>>}

SampleCurveFiles ==
    {<<[date |-> Midnight(0), value |-> 1500]>>,
     <<[date |-> Midnight(0), value |-> 1500],
       [date |-> Midnight(3), value |-> 1500]>>}

SampleSPYFiles == {IntradayFile({0, 2}), IntradayFile({0}), <<>>}

SampleVIXFiles == {DailyFile({0}), DailyFile({0, 2})}

\* the caller is not inside merge_market_and_macro_data
Outside == pc \in {"idle", "done", "raised"}

\* the optional table of a call: none, or the table the caller holds
Arguments == {None, Some(df)}

\* the name of a call with or without its optional argument
Signature(name, a) == IF a = None THEN name \o "()" ELSE name \o "(df)"

SaveProcessedData ==
    /\ Outside
    /\ \E a \in Arguments :
         \E r \in {save_processed_data(a, merged_data, processed)} :
             /\ call' = Signature("save_processed_data", a)
             /\ ret' = r.ret
             /\ raised' = r.raised
             /\ processed' = r.files
    /\ UNCHANGED <<df, origin, frames, pc, data, merged_data, log,
                   spread_baa_aaa, curve_10y_2y, spy, spy_missing, vix,
                   ioVars>>

GetDataInfo ==
    /\ Outside
    /\ \E a \in Arguments :
         \E r \in {get_data_info(a, merged_data)} :
             /\ call' = Signature("get_data_info", a)
             /\ ret' = r.ret
             /\ raised' = r.raised
    /\ UNCHANGED <<df, origin, frames, mergeVars, ioVars>>

\* the caller calls merge_market_and_macro_data once more: a new call, with
\* new locals; data, merged_data and the processed directory are as the
\* calls before left them
CallMergeAgain ==
    /\ pc \in {"done", "raised"}
    /\ pc' = "idle"
    /\ call' = "merge_market_and_macro_data"
    /\ ret' = None
    /\ raised' = NoError
    /\ log' = <<>>
    /\ spread_baa_aaa' = None
    /\ curve_10y_2y' = None
    /\ spy' = None
    /\ spy_missing' = None
    /\ vix' = None
    /\ UNCHANGED <<df, origin, frames, data, merged_data, processed, ioVars>>

NextSession ==
    \/ LoadCreditSpread(SampleSpreadFiles)
    \/ LoadYieldCurve(SampleCurveFiles)
    \/ LoadSPY(SampleSPYFiles)
    \/ LoadVIXAndMerge(SampleVIXFiles)
    \/ SaveProcessedData
    \/ GetDataInfo
    \/ CallMergeAgain

SpecSession == InitMerge /\ [][NextSession]_vars

-----------------------------------------------------------------------------
(* Raw files: _save_csv writes a table as CSV text into the raw directory  *)
(* and load_csv reads a file of that directory back.  A CSV text is a      *)
(* header line and the lines of the rows, each a sequence of cells.        *)

MaxNumeral == 9      \* numerals the files hold: -MaxNumeral..MaxNumeral
MaxFiles == 2        \* files written to the raw directory
MaxStored == 2       \* entries of DataManager.data in the file calls

FileNotFoundError ==
    [exc |-> "FileNotFoundError", msg |-> "", count |-> 0, dates |-> <<>>]

\* str.endswith
endswith(s, suffix) ==
    /\ Len(s) >= Len(suffix)
    /\ SubSeq(s, Len(s) - Len(suffix) + 1, Len(s)) = suffix

\* Path(filename).stem of a plain file name: the name without its last
\* suffix; a dot that starts or ends the name begins no suffix
stem(filename) ==
    LET i == Max({0} \cup {j \in 1..Len(filename) :
                              SubSeq(filename, j, j) = "."})
    IN  IF 1 < i /\ i < Len(filename) THEN SubSeq(filename, 1, i - 1)
        ELSE filename

\* the text of a date: day 0 is 2019-12-31, day d the d-th of January 2020
isoformat(ts) ==
    IF DayOf(ts) = 0 THEN "2019-12-31"
    ELSE "2020-01-" \o (IF DayOf(ts) < 10 THEN "0" ELSE "")
                    \o ToString(DayOf(ts))

\* pd.to_datetime of the text of a date
to_datetime(s) ==
    CHOOSE ts \in {Midnight(d) : d \in 0..31} : isoformat(ts) = s

Numerals == (0 - MaxNumeral)..MaxNumeral

\* the cell of column c that holds x: a missing cell is written empty
format_cell(c, x) ==
    IF IsNull(x) THEN ""
    ELSE IF c \in {"date", "index"} THEN isoformat(x)
    ELSE ToString(x)

\* the cell read back: an empty cell is missing, a numeral is its number,
\* any other text stays text
parse_cell(s) ==
    IF s = "" THEN NaN
    ELSE IF \E n \in Numerals : ToString(n) = s
         THEN CHOOSE n \in Numerals : ToString(n) = s
         ELSE s

\* the columns C in the order of the file
RECURSIVE header_of(_)
header_of(C) ==
    IF C = {} THEN <<>>
    ELSE LET c == CHOOSE x \in C : TRUE IN <<c>> \o header_of(C \ {c})

\* df.to_csv(path, index=index): the index is written only when asked for
to_csv(t, index) ==
    LET h == header_of(IF index THEN Columns(t) ELSE Columns(t) \ {"index"})
    IN  [header |-> h,
         lines |-> [i \in 1..Len(t) |->
                      [j \in 1..Len(h) |-> format_cell(h[j], t[i][h[j]])]]]

\* pd.read_csv(filepath): one row per line, one field per column of the header
read_csv(text) ==
    [i \in 1..Len(text.lines) |->
        [c \in Range(text.header) |->
            parse_cell(text.lines[i][CHOOSE j \in 1..Len(text.header) :
                                        text.header[j] = c])]]

\* d[k] = v
setitem(d, k, v) == [n \in DOMAIN d \cup {k} |-> IF n = k THEN v ELSE d[n]]

\* _save_csv(df, name): the raw directory afterwards
save_csv(raw, t, name) == setitem(raw, name \o ".csv", to_csv(t, FALSE))

\* the table is stored under the stem of the file whatever name is given
load_csv_ignores_name(raw, d, filename, name) ==
    LET f == IF endswith(filename, ".csv") THEN filename
             ELSE filename \o ".csv"
    IN  IF f \notin DOMAIN raw
        THEN [raised |-> FileNotFoundError, ret |-> None, data |-> d]
        ELSE [raised |-> NoError, ret |-> read_csv(raw[f]),
              data |-> setitem(d, stem(f), read_csv(raw[f]))]

\* load_csv(filename, name): the outcome and self.data afterwards
load_csv(raw, d, filename, name) ==
    LET f == IF endswith(filename, ".csv") THEN filename
             ELSE filename \o ".csv"
        store_name == IF name = None \/ name = Some("") THEN stem(f)
                      ELSE name[1]
    IN  IF f \notin DOMAIN raw
        THEN [raised |-> FileNotFoundError, ret |-> None, data |-> d]
        ELSE [raised |-> NoError, ret |-> read_csv(raw[f]),
              data |-> setitem(d, store_name, read_csv(raw[f]))]

\* a fetched series (unsorted, with a missing and a negative value), the
\* series of an empty response, and the first one indexed by date
SampleSeries ==
    <<[date |-> Midnight(2), value |-> 5],
      [date |-> Midnight(0), value |-> NaN],
      [date |-> Midnight(10), value |-> 0 - 2]>>

CsvTables == {<<>>, SampleSeries, Head_n(SampleSeries, 1), set_index(SampleSeries)}

CsvNames == {"a", "a.csv", ""}

CsvFilenames == CsvNames \cup {n \o ".csv" : n \in CsvNames}

StoreNames == {None, Some("k"), Some("")}

InitCsv ==
    /\ df \in CsvTables
    /\ call = "none"
    /\ ret = None
    /\ raised = NoError
    /\ origin = Input
    /\ frames = None
    /\ InitManager

\* manager._save_csv(df, n)
SaveCsv ==
    /\ Cardinality(DOMAIN raw_dir) < MaxFiles
    /\ \E n \in CsvNames :
         /\ raw_dir' = save_csv(raw_dir, df, n)
         /\ args' = [df |-> df, name |-> n]
    /\ call' = "_save_csv"
    /\ ret' = None
    /\ raised' = NoError
    /\ UNCHANGED <<df, origin, frames, mergeVars, fetchVars>>

\* manager.load_csv(filename, name=k), or manager.load_csv(filename)
LoadCsv ==
    /\ \E f \in CsvFilenames, k \in StoreNames :
         \E r \in {load_csv(raw_dir, data, f, k)} :
            /\ Cardinality(DOMAIN r.data) <= MaxStored
            /\ data' = r.data
            /\ ret' = r.ret
            /\ raised' = r.raised
            /\ args' = [filename |-> f, name |-> k]
    /\ call' = "load_csv"
    /\ UNCHANGED <<df, origin, frames, raw_dir, pc, merged_data, processed,
                   log, spread_baa_aaa, curve_10y_2y, spy, spy_missing, vix,
                   fetchVars>>

NextCsv ==
    \/ SaveCsv
    \/ LoadCsv

SpecCsv == InitCsv /\ [][NextCsv]_vars

-----------------------------------------------------------------------------
(* Fetching: fetch_and_save_fred_data fetches the base series one after    *)
(* the other with fetch_fred_series, which retries a failed request, then  *)
(* derives the two spreads.  A response of the server is an HTTP error, a  *)
(* body that is not JSON, or a JSON payload with its observations, whose   *)
(* cells are text.                                                         *)

\* the series in the order of the dictionary
FRED_SERIES_sorted == <<"AAA", "BAA", "DGS10", "DGS2">>

FRED_SERIES == <<"DGS10", "DGS2", "BAA", "AAA">>

max_retries == 3

\* 1.5, as a fraction
backoff == [num |-> 3, den |-> 2]

RECURSIVE Pow(_, _)
Pow(b, n) == IF n = 0 THEN 1 ELSE b * Pow(b, n - 1)

\* backoff ** attempt, in hundredths of a second
sleep_s(a) == (100 * Pow(backoff.num, a)) \div Pow(backoff.den, a)

Exception(kind, m) == [exc |-> kind, msg |-> m, count |-> 0, dates |-> <<>>]

RuntimeError(series, last) ==
    Exception("RuntimeError",
              "FRED API request failed for " \o series \o " after "
              \o ToString(max_retries) \o " attempts. Last error: " \o last.exc)

HTTPError == [status |-> "error"]

NotJSON == [status |-> "ok", json |-> FALSE]

JSON(obs) == [status |-> "ok", json |-> TRUE, observations |-> obs]

\* the text s is a date
is_date(s) == \E ts \in {Midnight(d) : d \in 0..31} : isoformat(ts) = s

\* pd.to_numeric(value.replace(".", pd.NA), errors="coerce")
to_numeric(s) ==
    IF s = "." THEN NaN
    ELSE IF \E n \in Numerals : ToString(n) = s
         THEN CHOOSE n \in Numerals : ToString(n) = s
         ELSE NaN

\* the try block of fetch_fred_series on the response of the server
try_request(response) ==
    IF response.status # "ok"
    THEN Raised(Exception("RequestException", "HTTP error"))
    ELSE IF ~response.json
    THEN Raised(Exception("ValueError", "the body is not JSON"))
    ELSE LET obs == response.observations
         IN  IF obs = <<>> THEN Returned(<<>>)
             ELSE IF ~({"date", "value"}
                          \subseteq UNION {DOMAIN obs[i] : i \in 1..Len(obs)})
             THEN Raised(Exception("KeyError", "not in index"))
             ELSE IF \E i \in 1..Len(obs) : ~is_date(obs[i].date)
             THEN Raised(Exception("ValueError", "unknown datetime format"))
             ELSE Returned(sort_values(
                      [i \in 1..Len(obs) |->
                          [date |-> to_datetime(obs[i].date),
                           value |-> to_numeric(obs[i].value)]]))

\* except (requests.exceptions.RequestException, ValueError)
caught(e) == e.exc \in {"RequestException", "ValueError"}

\* the handler sleeps before it looks at the number of attempts
on_failure_sleeps_first(a, e) ==
    [attempt |-> a + 1, last_err |-> Some(e), sleep |-> Some(sleep_s(a + 1))]

\* the except block after the failure e of attempt a: the new locals, and
\* the sleep it makes unless the loop is left
on_failure(a, e) ==
    [attempt |-> a + 1,
     last_err |-> Some(e),
     sleep |-> IF a + 1 >= max_retries THEN None ELSE Some(sleep_s(a + 1))]

\* the observations of a payload: none; two, the later first, one without a
\* value; one with a date that is no date; one without the value field
SampleObservations ==
    {<<>>,
     <<[date |-> "2020-01-02", value |-> "5"],
       [date |-> "2019-12-31", value |-> "."]>>,
     <<[date |-> "junk", value |-> "5"]>>,
     <<[date |-> "2020-01-02"]>>}

Responses == {HTTPError, NotJSON} \cup {JSON(obs) : obs \in SampleObservations}

InitFetch ==
    /\ df = <<>>
    /\ call = "none"
    /\ ret = None
    /\ raised = NoError
    /\ origin = Input
    /\ frames = None
    /\ InitManager

\* the call goes on in fetch_and_save_fred_data
InFetch ==
    /\ call' = "fetch_and_save_fred_data"
    /\ UNCHANGED <<df, origin, args, pc, merged_data, processed, log,
                   spread_baa_aaa, curve_10y_2y, spy, spy_missing, vix>>

\* fetch_fred_series(api_key, s, start_date) begins
BeginFetch(s) ==
    /\ fpc' = "request"
    /\ series_id' = s
    /\ attempt' = 0
    /\ last_err' = None
    /\ outcomes' = <<>>
    /\ sleeps' = <<>>

\* the exception e leaves fetch_fred_series and fetch_and_save_fred_data
RaiseFetch(e) ==
    /\ fpc' = "raised"
    /\ raised' = e
    /\ ret' = None

\* manager.fetch_and_save_fred_data(api_key): up to the first fetch
CallFetchAndSaveFredData ==
    /\ fpc = "idle"
    /\ frames' = <<>>
    /\ BeginFetch(FRED_SERIES[1])
    /\ InFetch
    /\ UNCHANGED <<ret, raised, data, raw_dir>>

\* one turn of the while loop of fetch_fred_series: the request, and the
\* return, the handler with its sleep, or the exception that follows
Request ==
    /\ fpc = "request"
    /\ IF attempt >= max_retries
       THEN /\ RaiseFetch(RuntimeError(series_id, last_err[1]))
            /\ UNCHANGED <<attempt, last_err, outcomes, sleeps>>
       ELSE \E response \in Responses :
              \E r \in {try_request(response)} :
                 /\ outcomes' = Append(outcomes, IF r.raised = NoError THEN "ok"
                                                ELSE r.raised.exc)
                 /\ IF r.raised = NoError
                    THEN /\ ret' = r.ret
                         /\ fpc' = "save"
                         /\ UNCHANGED <<raised, attempt, last_err, sleeps>>
                    ELSE IF caught(r.raised)
                    THEN \E h \in {on_failure(attempt, r.raised)} :
                            /\ attempt' = h.attempt
                            /\ last_err' = h.last_err
                            /\ IF h.sleep = None
                               THEN /\ RaiseFetch(RuntimeError(series_id,
                                                               r.raised))
                                    /\ UNCHANGED sleeps
                               ELSE /\ sleeps' = Append(sleeps, h.sleep[1])
                                    /\ UNCHANGED <<fpc, ret, raised>>
                    ELSE /\ RaiseFetch(r.raised)
                         /\ UNCHANGED <<attempt, last_err, sleeps>>
    /\ InFetch
    /\ UNCHANGED <<series_id, frames, data, raw_dir>>

\* self._save_csv(df, series_id)
SaveSeries ==
    /\ fpc = "save"
    /\ raw_dir' = save_csv(raw_dir, ret, series_id)
    /\ fpc' = "store"
    /\ InFetch
    /\ UNCHANGED <<ret, raised, frames, data,
                   series_id, attempt, last_err, outcomes, sleeps>>

\* frames[series_id] = df; self.data[series_id] = df; then the next series,
\* or the end of the loop
StoreSeries ==
    /\ fpc = "store"
    /\ frames' = setitem(frames, series_id, ret)
    /\ data' = setitem(data, series_id, ret)
    /\ \E i \in {j \in 1..Len(FRED_SERIES) : FRED_SERIES[j] = series_id} :
         IF i < Len(FRED_SERIES)
         THEN BeginFetch(FRED_SERIES[i + 1])
         ELSE /\ fpc' = "credit_spread"
              /\ UNCHANGED <<series_id, attempt, last_err, outcomes, sleeps>>
    /\ InFetch
    /\ UNCHANGED <<ret, raised, raw_dir>>

\* lines 163-167: the credit spread is derived, saved and stored
SaveCreditSpread ==
    /\ fpc = "credit_spread"
    /\ IF {"BAA", "AAA"} \subseteq DOMAIN frames
       THEN \E cs \in {derive_credit_spread(frames["BAA"], frames["AAA"])} :
               /\ raw_dir' = save_csv(raw_dir, cs, "credit_spread_baa_aaa")
               /\ data' = setitem(data, "credit_spread_baa_aaa", cs)
       ELSE UNCHANGED <<raw_dir, data>>
    /\ fpc' = "yield_curve"
    /\ InFetch
    /\ UNCHANGED <<ret, raised, frames,
                   series_id, attempt, last_err, outcomes, sleeps>>

\* lines 170-177: the 10Y-2Y spread is derived, saved and stored, and the
\* call returns frames
SaveYieldCurveSpread ==
    /\ fpc = "yield_curve"
    /\ IF {"DGS10", "DGS2"} \subseteq DOMAIN frames
       THEN \E yc \in {derive_10y_2y_spread(frames["DGS10"], frames["DGS2"])} :
               /\ raw_dir' = save_csv(raw_dir, yc, "yield_curve_10y_2y_spread")
               /\ data' = setitem(data, "yield_curve_10y_2y_spread", yc)
       ELSE UNCHANGED <<raw_dir, data>>
    /\ fpc' = "done"
    /\ ret' = frames
    /\ InFetch
    /\ UNCHANGED <<raised, frames,
                   series_id, attempt, last_err, outcomes, sleeps>>

NextFetch ==
    \/ CallFetchAndSaveFredData
    \/ Request
    \/ SaveSeries
    \/ StoreSeries
    \/ SaveCreditSpread
    \/ SaveYieldCurveSpread

SpecFetch == InitFetch /\ [][NextFetch]_vars

\* a request ends (timeout=30) and a sleep ends: a turn of the loop that has
\* begun is completed
SpecFetchFair == SpecFetch /\ WF_<<fpc, outcomes>>(Request)

-----------------------------------------------------------------------------
(* Start date: _n_months_ago(today, months) is the text of the date months *)
(* calendar months before today; the caller passes it to the FRED API as   *)
(* observation_start.                                                      *)

MaxYear == 4         \* years of today: 1..MaxYear (year 4 is a leap year)
MaxMonths == 14      \* months: 0..MaxMonths

isleap(year) == year % 4 = 0 /\ (year % 100 # 0 \/ year % 400 = 0)

\* calendar.monthrange(year, month)[1]: the number of days of the month
monthrange(year, month) ==
    IF month = 2 THEN (IF isleap(year) THEN 29 ELSE 28)
    ELSE IF month \in {4, 6, 9, 11} THEN 30
    ELSE 31

\* f"{n:0{width}d}": the sign counts in the width
zero_padded(n, width) ==
    LET digits == ToString(IF n < 0 THEN 0 - n ELSE n)
        sign == IF n < 0 THEN "-" ELSE ""
        RECURSIVE pad0(_)
        pad0(s) == IF Len(sign) + Len(s) >= width THEN s ELSE pad0("0" \o s)
    IN  sign \o pad0(digits)

\* f"{year:04d}-{month:02d}-{day:02d}"
strftime(date) ==
    zero_padded(date.year, 4) \o "-" \o zero_padded(date.month, 2)
    \o "-" \o zero_padded(date.day, 2)

\* the day of today is kept as it is
months_before_no_clamp(today, months) ==
    LET target_total == today.year * 12 + (today.month - 1) - months
    IN  [year |-> target_total \div 12,
         month |-> (target_total % 12) + 1,
         day |-> today.day]

\* lines 75-80: year, month and day of the result
months_before(today, months) ==
    LET total_months == today.year * 12 + (today.month - 1)
        target_total == total_months - months
        year == target_total \div 12
        month == (target_total % 12) + 1
        last_day == monthrange(year, month)
    IN  [year |-> year, month |-> month, day |-> Min({today.day, last_day})]

n_months_ago(today, months) == strftime(months_before(today, months))

\* a datetime: year from MINYEAR = 1 on, a month, a day of that month
Datetimes ==
    {t \in [year : 1..MaxYear, month : 1..12, day : 1..31] :
        t.day <= monthrange(t.year, t.month)}

InitMonths ==
    /\ df = <<>>
    /\ call = "none"
    /\ ret = None
    /\ raised = NoError
    /\ origin = Input
    /\ frames = None
    /\ InitManager

\* start_date = self._n_months_ago(today, months)
NMonthsAgo ==
    /\ call = "none"
    /\ \E today \in Datetimes, months \in 0..MaxMonths :
         /\ args' = [today |-> today, months |-> months]
         /\ ret' = n_months_ago(today, months)
    /\ call' = "_n_months_ago"
    /\ UNCHANGED <<df, origin, frames, raised, raw_dir, mergeVars, fetchVars>>

NextMonths == NMonthsAgo

SpecMonths == InitMonths /\ [][NextMonths]_vars

-----------------------------------------------------------------------------
(* Properties of the unit calls                                            *)

\* the calendar dates (midnight timestamps) of the rows of a table
DatesOf(t) == {Normalize(t[i].date) : i \in 1..Len(t)}

UniqueDates(t) ==
    \A i, j \in 1..Len(t) : i # j => Normalize(t[i].date) # Normalize(t[j].date)

\* the canonical business-day calendar over the span of a non-empty table
Canonical(t) ==
    {x \in Min(DatesOf(t))..Max(DatesOf(t)) :
        x % SlotsPerDay = 0 /\ US_BD(DayOf(x))}

CreatedRows == call = "create_rows_for_missing_dates" /\ raised = NoError

\* C3: for a series with unique dates create_rows_for_missing_dates returns,
\* and the index of its output is exactly the canonical business-day
\* calendar over [min date, max date] of the series: the same dates, in
\* ascending order, each exactly once.
C3_IndexIsCalendar ==
    call = "create_rows_for_missing_dates" /\ df # <<>> /\ UniqueDates(df)
    => /\ raised = NoError
       /\ \A k \in 1..(Len(ret) - 1) : ret[k].index < ret[k + 1].index
       /\ {ret[k].index : k \in 1..Len(ret)} = Canonical(df)

\* C3 witness: an output that introduces a business day the input lacks and
\* leaves out a non-business day the input has
C3_Witness ==
    /\ CreatedRows
    /\ \E k \in 1..Len(ret) : ret[k].index \notin DatesOf(df)
    /\ \E x \in DatesOf(df) : ~US_BD(DayOf(x))

\* C4 as claimed: every input row of the span, rows dated on a weekend or a
\* holiday included, appears in the output with its date.
C4_Original ==
    CreatedRows
    => \A i \in 1..Len(df) :
          \E k \in 1..Len(ret) : ret[k].index = Normalize(df[i].date)

\* C4 amended: every input row dated on a business day appears in the output
\* with its date (the rows at min and max included); an input row dated on
\* a weekend or an excluded holiday does not appear.
C4_BusinessRowsKept ==
    CreatedRows
    => \A i \in 1..Len(df) :
          US_BD(DayOf(df[i].date))
          <=> \E k \in 1..Len(ret) : ret[k].index = Normalize(df[i].date)

\* C4 witness: an input with rows on business days at min and max and a row
\* on a non-business day between them
C4_Witness ==
    /\ CreatedRows
    /\ \E i, j, m \in 1..Len(df) :
         /\ df[i].date < df[j].date /\ df[j].date < df[m].date
         /\ US_BD(DayOf(df[i].date)) /\ US_BD(DayOf(df[m].date))
         /\ ~US_BD(DayOf(df[j].date))

EqualsCanonical(t) ==
    t # <<>> /\ UniqueDates(t) /\ DatesOf(t) = Canonical(t)

\* C6 as claimed: check_time_gaps returns without error if and only if the
\* dates of the series equal the canonical calendar over its span.
C6_Original ==
    call = "check_time_gaps" => (raised = NoError <=> EqualsCanonical(df))

\* C6 amended: check_time_gaps returns without error if and only if the
\* series is not empty and has every business day of the canonical calendar
\* over its span; an extra non-business date or a repeated date is let
\* through.  On success the series itself is returned.
C6_PassIffNoMissing ==
    call = "check_time_gaps"
    => /\ raised = NoError <=> (df # <<>> /\ Canonical(df) \subseteq DatesOf(df))
       /\ raised = NoError => ret = df

\* C6 witness: a series with an extra non-business date that passes
C6_Witness ==
    /\ call = "check_time_gaps"
    /\ raised = NoError
    /\ \E x \in DatesOf(df) : ~US_BD(DayOf(x))
    /\ Cardinality(Canonical(df)) > 1

\* the failure of check_time_gaps that reports exactly the date d
ReportsExactly(d) ==
    /\ raised.exc = "ValueError"
    /\ raised.msg = GapMsg
    /\ raised.count = 1
    /\ raised.dates = <<d>>

CheckedAfterDrop == origin.by = "drop" /\ call = "check_time_gaps"

\* C7 as claimed: removing the row of any business day (first, interior or
\* last) of a series that passed makes check_time_gaps fail and report
\* exactly that date (stated for a series that keeps at least one row).
C7_Original ==
    CheckedAfterDrop /\ US_BD(DayOf(origin.date)) /\ df # <<>>
    => ReportsExactly(origin.date)

\* C7 amended: removing the only row of a business day that lies strictly
\* between the first and the last date of a series that passed makes
\* check_time_gaps fail and report exactly that date as missing (count 1).
C7_InteriorRemovalReported ==
    /\ CheckedAfterDrop
    /\ US_BD(DayOf(origin.date))
    /\ df # <<>>
    /\ origin.date \notin DatesOf(df)
    /\ Min(DatesOf(df)) < origin.date
    /\ origin.date < Max(DatesOf(df))
    => ReportsExactly(origin.date)

\* C7 witness: the check failed after an interior business day was removed
C7_Witness ==
    /\ CheckedAfterDrop
    /\ US_BD(DayOf(origin.date))
    /\ df # <<>>
    /\ Min(DatesOf(df)) < origin.date
    /\ origin.date < Max(DatesOf(df))
    /\ raised # NoError

\* C8: check_anomalies_macroeconomic raises a ValueError if and only if the
\* series has a negative value, a repeated date or a missing cell;
\* otherwise it returns the series.
C8_AnomaliesExact ==
    call = "check_anomalies_macroeconomic"
    => LET negative == \E i \in 1..Len(df) :
                          ~IsNull(df[i].value) /\ df[i].value < 0
           repeated == Cardinality({df[i].date : i \in 1..Len(df)}) < Len(df)
           missing == \E i \in 1..Len(df) :
                          IsNull(df[i].date) \/ IsNull(df[i].value)
       IN  /\ raised # NoError <=> (negative \/ repeated \/ missing)
           /\ raised # NoError => raised.exc = "ValueError" /\ ret = None
           /\ raised = NoError => ret = df

\* C8 witness: a series whose only anomaly is a negative value is rejected,
\* with no repeated date and no missing cell in it
C8_Witness ==
    /\ call = "check_anomalies_macroeconomic"
    /\ raised # NoError
    /\ Len(df) > 1
    /\ Cardinality({df[i].date : i \in 1..Len(df)}) = Len(df)
    /\ \A i \in 1..Len(df) : ~IsNull(df[i].date) /\ ~IsNull(df[i].value)

\* C9: after forward_fill_missing_data, in every column, a cell that was
\* not missing is unchanged, a cell that was missing holds the value of the
\* nearest earlier row whose cell was not missing, and a cell is still
\* missing exactly when every cell at or above it was missing.
C9_ForwardFill ==
    call = "forward_fill_missing_data"
    => /\ raised = NoError
       /\ Len(ret) = Len(df)
       /\ \A i \in 1..Len(df) : \A c \in DOMAIN df[i] :
             LET valid == {j \in 1..i : ~IsNull(df[j][c])}
             IN  /\ ~IsNull(df[i][c]) => ret[i][c] = df[i][c]
                 /\ valid # {} => ret[i][c] = df[Max(valid)][c]
                 /\ IsNull(ret[i][c]) <=> valid = {}

\* C9 witness: one column filled over two rows while the other column has
\* a leading missing cell that stays missing
C9_Witness ==
    /\ call = "forward_fill_missing_data"
    /\ Len(df) = 3
    /\ ~IsNull(df[1].value) /\ IsNull(df[2].value) /\ IsNull(df[3].value)
    /\ ret[3].value = df[1].value
    /\ IsNull(df[1].date) /\ IsNull(ret[1].date) /\ ~IsNull(ret[3].date)

FilledTwice ==
    call = "forward_fill_missing_data" /\ origin.by = "forward_fill_missing_data"

\* C10: forward fill applied to a table forward fill returned gives that
\* table again.
C10_Idempotent == FilledTwice => ret = df

\* C10 witness: the second fill of a table whose first fill changed a cell
\* two rows below the observation
C10_Witness ==
    /\ FilledTwice
    /\ Len(df) = 3
    /\ df[1].value = df[3].value
    /\ ~IsNull(df[1].value)
    /\ IsNull(df[1].date)


-----------------------------------------------------------------------------
(* Properties of merge_market_and_macro_data                               *)

MergeReturned == pc = "done"

\* the table the call returned
Merged == merged_data[1]

\* C1: whenever merge_market_and_macro_data returns a table, the table has
\* no missing cell and its date index is strictly increasing (so no date
\* is repeated).
C1_MergedCompleteAndSorted ==
    MergeReturned
    => /\ \A k \in 1..Len(Merged) :
             \A c \in DOMAIN Merged[k] : ~IsNull(Merged[k][c])
       /\ \A k \in 1..(Len(Merged) - 1) : Merged[k].index < Merged[k + 1].index

\* C1 witness: a returned table of several rows, one of them at a date that
\* only a macro series brought into the join, returned after the head of
\* the joined table was dropped for its missing cells
C1_Witness ==
    /\ MergeReturned
    /\ Len(Merged) >= 2
    /\ Len(Merged) < Len(join_all(spy, vix, curve_10y_2y, spread_baa_aaa))
    /\ \E k \in 1..Len(Merged) : Merged[k].index \notin IndexSet(spy)

\* the calendar days on which the raw SPY file has an observation
SPYRawDays ==
    LET raw == data["SPY_1min_20231027_20251027"]
    IN  {DayOf(raw[i].caldt) : i \in 1..Len(raw)}

\* the business days inside the span of the raw SPY series on which it has
\* no observation
SPYOriginallyMissing ==
    {d \in Min(SPYRawDays)..Max(SPYRawDays) : US_BD(d) /\ d \notin SPYRawDays}

\* C2: the returned table has no row dated on a business day of the span of
\* SPY on which SPY had no observation before it was reindexed.
C2_MissingSessionsDropped ==
    MergeReturned
    => \A d \in SPYOriginallyMissing :
          \A k \in 1..Len(Merged) : Merged[k].index # Midnight(d)

\* the cleaned series that enter the join, each with its columns
Series ==
    {[table |-> spy, columns |-> SPYColumns],
     [table |-> vix, columns |-> VIXColumns],
     [table |-> curve_10y_2y, columns |-> {"yield_curve_10y2y"}],
     [table |-> spread_baa_aaa, columns |-> {"credit_spread_baa_aaa"}]}

\* the dates before or at x on which the series table t has an observation
\* (a value that is not missing) in column c
ObservedUpTo(t, c, x) ==
    {t[i].index : i \in {j \in 1..Len(t) : t[j].index <= x /\ ~IsNull(t[j][c])}}

\* the value of column c of the series table t at date x
ValueAt(t, c, x) == t[CHOOSE i \in 1..Len(t) : t[i].index = x][c]

\* C12: in the returned table, for every row date d and every column of a
\* series that has no observation dated d, the series has an observation
\* before d and the cell holds the series' value at the latest such date.
C12_FilledFromLatest ==
    MergeReturned
    => \A k \in 1..Len(Merged) : \A S \in Series : \A c \in S.columns :
          LET d == Merged[k].index
              E == ObservedUpTo(S.table, c, d)
          IN  d \notin E
              => /\ E # {}
                 /\ Merged[k][c] = ValueAt(S.table, c, Max(E))

\* a returned row on a date of the span of SPY without an SPY bar, and a
\* macro column filled from an earlier date in the same table
C12_Witness ==
    /\ MergeReturned
    /\ \E k \in 1..Len(Merged) :
         /\ Merged[k].index \in IndexSet(spy)
         /\ Merged[k].index \notin ObservedUpTo(spy, "close_SPY", Merged[k].index)
    /\ \E k \in 1..Len(Merged) :
         Merged[k].index \notin IndexSet(curve_10y_2y)

\* the joined table before the fill and the final drop
Joined == drop(join_all(spy, vix, curve_10y_2y, spread_baa_aaa), spy_missing)

\* every column has an observation at or before the date x of the joined
\* table
AllObservedBy(x) ==
    \A S \in Series : \A c \in S.columns : ObservedUpTo(S.table, c, x) # {}

\* C13: the final dropna removes only a prefix of the joined table: no
\* removed row is dated later than a retained row, and the retained rows are
\* exactly the rows of the joined table from the first date on which every
\* column has an observation at or before it (none when there is no such
\* date).
C13_OnlyHeadDropped ==
    MergeReturned
    => \A J \in {IndexSet(Joined)} : \A R \in {IndexSet(Merged)} :
          /\ R \subseteq J
          /\ \A x \in J \ R : \A y \in R : x < y
          /\ R = {x \in J : AllObservedBy(x)}
          /\ Len(Merged) = Cardinality(R)

\* a run in which the head of the joined table is dropped and a tail of
\* several rows, one of them filled, is returned
C13_Witness ==
    /\ MergeReturned
    /\ Len(Merged) >= 2
    /\ IndexSet(Joined) \ IndexSet(Merged) # {}
    /\ \E k \in 1..Len(Merged) : \E c \in VIXColumns :
         Merged[k].index \notin ObservedUpTo(vix, c, Merged[k].index)

-----------------------------------------------------------------------------
(* Frame properties of the unit calls                                      *)

Checks == {"check_anomalies_macroeconomic", "check_time_gaps"}

\* the series df is accepted when check_anomalies_macroeconomic runs first
\* and check_time_gaps runs on what it returned
AcceptedAnomaliesFirst ==
    LET a == check_anomalies_macroeconomic(df)
    IN  a.raised = NoError /\ check_time_gaps(a.ret).raised = NoError

\* the series df is accepted when check_time_gaps runs first
AcceptedGapsFirst ==
    LET g == check_time_gaps(df)
    IN  g.raised = NoError /\ check_anomalies_macroeconomic(g.ret).raised = NoError

\* C14: a call of check_anomalies_macroeconomic or check_time_gaps leaves the
\* caller's series as it was, whether it passes or fails; when it passes it
\* returns that series; and a series is accepted by the two checks run in
\* one order exactly when it is accepted by them in the other order.
C14_ChecksLeaveSeries ==
    /\ [][call' \in Checks => df' = df]_vars
    /\ [](call \in Checks /\ raised = NoError => ret = df)
    /\ [](AcceptedAnomaliesFirst <=> AcceptedGapsFirst)

\* a series whose rows are not in date order passes check_time_gaps, and it
\* passes both checks
C14_Witness ==
    /\ call = "check_time_gaps"
    /\ raised = NoError
    /\ Len(df) >= 2
    /\ df # sort_values(df)
    /\ AcceptedAnomaliesFirst

Stages ==
    {"forward_fill_missing_data", "percent_to_decimal",
     "create_rows_for_missing_dates", "group_by_date"}

\* C15: a call of forward_fill_missing_data, percent_to_decimal,
\* create_rows_for_missing_dates or group_by_date leaves the table the
\* caller passed in with the same columns and the same cell values.
C15_NoStageMutates == [][call' \in Stages => df' = df]_vars

-----------------------------------------------------------------------------
(* Error and ordering properties of the merge                              *)

\* the series whose cleaning raised: the last one the run made calls on
FailedSeries ==
    IF "VIX" \in DOMAIN log THEN "VIX"
    ELSE IF "SPY" \in DOMAIN log THEN "SPY"
    ELSE IF "yield_curve_10y2y" \in DOMAIN log THEN "yield_curve_10y2y"
    ELSE "credit_spread_baa_aaa"

ValidationMsgs == {NegativeMsg, DuplicateMsg, NullMsg, GapMsg}

\* C17: an error raised by check_anomalies_macroeconomic or check_time_gaps
\* carries a message that names the kind of anomaly and the name of the
\* series that failed, and for calendar gaps the count of the missing dates
\* with a sample of at most 5 of them.
C17_FailureNamesSeries ==
    pc = "raised" /\ raised.msg \in ValidationMsgs
    => /\ raised.exc = "ValueError"
       /\ "series" \in DOMAIN raised
       /\ raised.series = FailedSeries
       /\ raised.msg = GapMsg
          => /\ raised.count >= 1
             /\ Len(raised.dates) <= 5
             /\ Len(raised.dates) <= raised.count

\* the stage of the pipeline a cleaning call belongs to: 1 Resampler,
\* 2 Validator, 3 Reindexer, 4 Fill Policy, 5 Consolidator (0: the unit
\* conversion, not one of the five)
StageRank(c) ==
    IF c = "group_by_date" THEN 1
    ELSE IF c \in Checks THEN 2
    ELSE IF c = "create_rows_for_missing_dates" THEN 3
    ELSE IF c = "forward_fill_missing_data" THEN 4
    ELSE IF c = "join" THEN 5
    ELSE 0

\* C18: on every series the stages run in the order Resampler, Validator,
\* Reindexer, Fill Policy, Consolidator: no series is forward-filled before
\* it has been validated and reindexed, and none reaches the join without
\* having been validated.
C18_StageOrder ==
    \A n \in DOMAIN log :
       LET s == log[n]
       IN  /\ \A i, j \in 1..Len(s) :
                i < j /\ StageRank(s[i]) # 0 /\ StageRank(s[j]) # 0
                => StageRank(s[i]) <= StageRank(s[j])
           /\ \A j \in 1..Len(s) :
                StageRank(s[j]) = 4
                => /\ \E i \in 1..(j - 1) : StageRank(s[i]) = 2
                   /\ \E i \in 1..(j - 1) : StageRank(s[i]) = 3
           /\ \A j \in 1..Len(s) :
                StageRank(s[j]) = 5 => \E i \in 1..(j - 1) : StageRank(s[i]) = 2

-----------------------------------------------------------------------------
(* Properties of the resampling calls                                      *)

Grouped == call = "group_by_date" /\ raised = NoError

\* the calendar dates (at midnight) of the rows of the intraday table
BarDates == {Midnight(DayOf(df[i].date)) : i \in {j \in 1..Len(df) : ~IsNull(df[j].date)}}

\* the positions of the rows of df dated on the calendar date x
RowsOn(x) ==
    {i \in 1..Len(df) : ~IsNull(df[i].date) /\ Midnight(DayOf(df[i].date)) = x}

\* one output row per distinct calendar date of the input
OneRowPerDate ==
    /\ {ret[k].index : k \in 1..Len(ret)} = BarDates
    /\ Len(ret) = Cardinality(BarDates)

\* the volumes of the rows 1..n of df dated x, the missing ones left out,
\* added up
RECURSIVE VolumeUpTo(_, _)
VolumeUpTo(x, n) ==
    IF n = 0 THEN 0
    ELSE VolumeUpTo(x, n - 1)
         + (IF n \in RowsOn(x) /\ ~IsNull(df[n].volume) THEN df[n].volume ELSE 0)

\* C11 as claimed: one row per distinct date; open is the open of the first
\* input row of the date, close the close of its last input row, high the
\* maximum high, low the minimum low, volume the sum of the volumes.
C11_Original ==
    Grouped
    => /\ OneRowPerDate
       /\ \A k \in 1..Len(ret) :
            LET I == RowsOn(ret[k].index)
            IN  /\ ret[k].open = df[Min(I)].open
                /\ ret[k].close = df[Max(I)].close
                /\ \A i \in I : df[i].high <= ret[k].high
                /\ \E i \in I : df[i].high = ret[k].high
                /\ \A i \in I : ~IsNull(df[i].low) => ret[k].low <= df[i].low
                /\ \E i \in I : df[i].low = ret[k].low
                /\ ret[k].volume = VolumeUpTo(ret[k].index, Len(df))

\* C11 amended: group_by_date returns exactly one row per distinct calendar
\* date of the input; for each date, open is the first non-missing open among
\* the rows of that date in input order, close the last non-missing close,
\* high the maximum and low the minimum of the non-missing highs and lows
\* (each missing when the date has no such value), and volume the sum of the
\* non-missing volumes (0 when there is none).
C11_Aggregates ==
    Grouped
    => /\ OneRowPerDate
       /\ \A k \in 1..Len(ret) :
            LET I == RowsOn(ret[k].index)
                O == {i \in I : ~IsNull(df[i].open)}
                C == {i \in I : ~IsNull(df[i].close)}
                H == {df[i].high : i \in {j \in I : ~IsNull(df[j].high)}}
                L == {df[i].low : i \in {j \in I : ~IsNull(df[j].low)}}
            IN  /\ IF O = {} THEN IsNull(ret[k].open)
                   ELSE \E i \in O : /\ ret[k].open = df[i].open
                                     /\ \A j \in O : i <= j
                /\ IF C = {} THEN IsNull(ret[k].close)
                   ELSE \E i \in C : /\ ret[k].close = df[i].close
                                     /\ \A j \in C : j <= i
                /\ IF H = {} THEN IsNull(ret[k].high)
                   ELSE ret[k].high \in H /\ \A h \in H : h <= ret[k].high
                /\ IF L = {} THEN IsNull(ret[k].low)
                   ELSE ret[k].low \in L /\ \A l \in L : ret[k].low <= l
                /\ ret[k].volume = VolumeUpTo(ret[k].index, Len(df))

\* two dates in the input; one of them has a blank first row followed by two
\* rows with different values
C11_Witness ==
    /\ Grouped
    /\ Len(ret) = 2
    /\ \E k \in 1..Len(ret) :
         LET I == RowsOn(ret[k].index)
         IN  /\ Cardinality(I) = 2
             /\ IsNull(df[Min(I)].open)
             /\ ~IsNull(ret[k].open)

-----------------------------------------------------------------------------
(* Properties of the derivation calls                                      *)

Derived == call \in {"_derive_credit_spread", "_derive_10y_2y_spread"}

FrameDatesOf(t) == {t[i].date : i \in 1..Len(t)}

FrameValue(t, x) == t[CHOOSE i \in 1..Len(t) : t[i].date = x].value

\* C19: for two series A and B with unique dates the derived spread has
\* exactly one row per date of the union of their dates, in ascending date
\* order; its value is A's value minus B's value on a date both have (missing
\* when one of the two values is missing) and is missing on a date only one
\* of them has.
C19_SpreadOverUnion ==
    Derived
    => LET A == frames.first
           B == frames.second
       IN  /\ {ret[k].date : k \in 1..Len(ret)} = FrameDatesOf(A) \cup FrameDatesOf(B)
           /\ \A k \in 1..(Len(ret) - 1) : ret[k].date < ret[k + 1].date
           /\ \A k \in 1..Len(ret) :
                LET x == ret[k].date
                IN  IF x \in FrameDatesOf(A) /\ x \in FrameDatesOf(B)
                    THEN IF IsNull(FrameValue(A, x)) \/ IsNull(FrameValue(B, x))
                         THEN IsNull(ret[k].value)
                         ELSE ret[k].value = FrameValue(A, x) - FrameValue(B, x)
                    ELSE IsNull(ret[k].value)

\* a spread with a date both series have, with a value, and a date only one
\* of them has, derived from series that are not in date order
C19_Witness ==
    /\ Derived
    /\ \E k \in 1..Len(ret) : ~IsNull(ret[k].value)
    /\ \E k \in 1..Len(ret) : ret[k].date \notin FrameDatesOf(frames.second)
    /\ frames.first # sort_values(frames.first)

-----------------------------------------------------------------------------
(* Properties of a session                                                 *)

InMergeCall == call = "merge_market_and_macro_data"

\* C16: when the cleaning of a series fails during
\* merge_market_and_macro_data, the call ends there with the exception (it is
\* not caught and no step of the call follows), merged_data and the
\* processed directory are as they were before the call, and a following
\* save_processed_data() writes no table of the failed run: it raises when
\* merged_data is None and otherwise writes the table merged_data held
\* before the failed call.
C16_FailFast ==
    /\ [](pc = "raised" /\ InMergeCall => raised.exc # "none")
    /\ [][pc = "raised" => pc' \in {"raised", "idle"}]_vars
    /\ [][merged_data' # merged_data => pc = "vix" /\ pc' = "done"]_vars
    /\ [][call' = "merge_market_and_macro_data" /\ pc' = "raised"
          => processed' = processed /\ merged_data' = merged_data]_vars
    /\ [][pc = "raised" /\ call' = "save_processed_data()"
          => IF merged_data = None
             THEN raised'.exc = "ValueError" /\ processed' = processed
             ELSE processed' = merged_data]_vars

\* a run that failed after a run that returned, then save_processed_data():
\* the table written is the one of the earlier run
C16_Witness ==
    /\ pc = "raised"
    /\ merged_data # None
    /\ call = "save_processed_data()"
    /\ processed = merged_data
    /\ data["credit_spread_baa_aaa"][1].value < 0

\* C20: a new DataManager has data = {} and merged_data = None; merged_data
\* becomes non-None only in the step in which a merge_market_and_macro_data
\* call returns; and while merged_data is None, save_processed_data() and
\* get_data_info() called without a table raise ValueError and write
\* nothing.
C20_MergedDataLifecycle ==
    /\ [](call = "none" => data = <<>> /\ merged_data = None)
    /\ [][merged_data = None /\ merged_data' # None
          => call' = "merge_market_and_macro_data" /\ pc' = "done"]_vars
    /\ [][merged_data = None
          /\ call' \in {"save_processed_data()", "get_data_info()"}
          => /\ raised'.exc = "ValueError"
             /\ processed' = processed
             /\ merged_data' = None]_vars

\* save_processed_data() on a manager whose only run failed
C20_Witness ==
    /\ merged_data = None
    /\ pc = "raised"
    /\ call = "save_processed_data()"
    /\ raised = ValueError(NoDataToSaveMsg)
    /\ processed = None

-----------------------------------------------------------------------------
(* Raw files                                                               *)

\* a load_csv call of the file just written: by its name or by its file name
LoadsSaved ==
    /\ call = "_save_csv"
    /\ call' = "load_csv"
    /\ args'.filename \in {args.name, args.name \o ".csv"}

RowDate(r) == IF "index" \in DOMAIN r THEN r.index ELSE r.date

\* the loaded table L has the dates and the values of T, row by row
SameDatesAndValues(L, T) ==
    /\ Len(L) = Len(T)
    /\ \A i \in 1..Len(T) :
         /\ DOMAIN L[i] = {"date", "value"}
         /\ to_datetime(L[i].date) = RowDate(T[i])
         /\ L[i].value = T[i].value

\* the load returned the table T and stored it under k, next to the other
\* entries
RoundTrip(T, k) ==
    /\ raised' = NoError
    /\ SameDatesAndValues(ret', T)
    /\ DOMAIN data' = DOMAIN data \cup {k}
    /\ data'[k] = ret'
    /\ \A m \in DOMAIN data \ {k} : data'[m] = data[m]

\* a non-empty file name that does not end in .csv
PlainName(n) == n # "" /\ ~endswith(n, ".csv")

\* C21 as stated: for every table T and name n, after _save_csv(T, n),
\* load_csv(n + ".csv", name=k) and load_csv(n, name=k) both return a table
\* with the dates and values of T, and afterwards data[k] is that table (k
\* defaulting to n when no name is given); other entries of data are
\* unchanged.
C21_Original ==
    [][LoadsSaved
       => RoundTrip(args.df,
                    IF args'.name = None THEN args.name ELSE args'.name[1])]_vars

\* C21 (amended): the same for every table T whose date is a column and every
\* non-empty name n that does not end in .csv, k defaulting to n when no name
\* or the empty name is given.
C21_RoundTrip ==
    [][LoadsSaved /\ PlainName(args.name) /\ "index" \notin Columns(args.df)
       => RoundTrip(args.df,
                    IF args'.name \in {None, Some("")} THEN args.name
                    ELSE args'.name[1])]_vars

\* the series with a missing value, saved as "a" and loaded by load_csv("a")
\* into a data that held an entry already
C21_Witness ==
    /\ call = "load_csv"
    /\ raised = NoError
    /\ args = [filename |-> "a", name |-> None]
    /\ df = SampleSeries
    /\ DOMAIN data = {"a", "k"}
    /\ data["a"] = ret
    /\ ret[2].value = NaN

-----------------------------------------------------------------------------
(* Order of the rows within a date                                         *)

\* C22 as stated: group_by_date does not re-sort the rows of a date by
\* timestamp: the daily open is the open of the row of the date that comes
\* first in the input order and the daily close the close of the row that
\* comes last, whatever their timestamps.
C22_Original ==
    Grouped
    => \A k \in 1..Len(ret) :
          /\ ret[k].open = df[Min(RowsOn(ret[k].index))].open
          /\ ret[k].close = df[Max(RowsOn(ret[k].index))].close

\* C22 (amended): group_by_date does not re-sort the rows of a date by
\* timestamp: the daily open is the open of the first row, in input order,
\* among the rows of the date whose open is present, and the daily close the
\* close of the last row, in input order, among those whose close is present,
\* whatever the timestamps of these rows.
C22_InputOrder ==
    Grouped
    => \A k \in 1..Len(ret) :
          \A O \in {{i \in RowsOn(ret[k].index) : ~IsNull(df[i].open)}} :
          \A C \in {{i \in RowsOn(ret[k].index) : ~IsNull(df[i].close)}} :
             /\ O # {} => ret[k].open = df[Min(O)].open
             /\ C # {} => ret[k].close = df[Max(C)].close

\* the rows of a date given latest first, with different values: the open is
\* that of the latest row and the close that of the earliest
C22_Witness ==
    /\ Grouped
    /\ \E k \in 1..Len(ret) :
         \E i, j \in RowsOn(ret[k].index) :
            /\ i < j
            /\ df[i].date > df[j].date
            /\ ~IsNull(df[i].open) /\ ~IsNull(df[j].open)
            /\ df[i].open # df[j].open
            /\ ret[k].open = df[i].open
            /\ ret[k].close = df[j].close

-----------------------------------------------------------------------------
(* Absent values of the daily bars                                         *)

\* the field c is missing in every intraday row of the date of the k-th bar
AbsentOnDate(k, c) == \A i \in RowsOn(ret[k].index) : IsNull(df[i][c])

\* C23: the resampler never turns an absent value into zero: a field (open,
\* high, low, close or volume) that is missing in every intraday row of a
\* date is missing in the daily bar group_by_date produces for that date.
C23_AbsentStaysAbsent ==
    Grouped
    => \A k \in 1..Len(ret) :
          \A c \in {"open", "high", "low", "close", "volume"} :
             AbsentOnDate(k, c) => IsNull(ret[k][c])

-----------------------------------------------------------------------------
(* Retries of fetch_fred_series                                            *)

\* the request failed with an error the loop retries
Retried(o) == o \in {"RequestException", "ValueError"}

\* C24: every call of fetch_fred_series ends after at most 3 HTTP requests:
\* it returns the result of the first request that succeeds and makes no
\* further request; it raises RuntimeError exactly when 3 requests in a row
\* failed with a request error or a value error; it sleeps only between two
\* attempts (never after the last request); and an error of any other kind
\* is not retried.
C24_Retries ==
    /\ [](Len(outcomes) <= max_retries)
    /\ [](\A i \in 1..Len(outcomes) :
            /\ i < Len(outcomes) => Retried(outcomes[i])
            /\ outcomes[i] = "ok" => fpc # "request" /\ raised = NoError
            /\ ~Retried(outcomes[i]) /\ outcomes[i] # "ok"
               => fpc = "raised" /\ raised.exc = outcomes[i])
    /\ [][fpc = "request" /\ fpc' = "save"
          => /\ outcomes' = Append(outcomes, "ok")
             /\ \E response \in Responses : ret' = try_request(response).ret]_vars
    /\ [](raised.exc = "RuntimeError"
          <=> /\ Len(outcomes) = max_retries
              /\ \A i \in 1..Len(outcomes) : Retried(outcomes[i]))
    /\ [](IF fpc = "request" THEN Len(sleeps) = Len(outcomes)
          ELSE outcomes # <<>> => Len(sleeps) = Len(outcomes) - 1)
    /\ (fpc = "request" ~> fpc # "request")

\* the third request succeeds after a request error and a value error, with
\* a sleep after each of the two failures
C24_Witness ==
    /\ fpc = "save"
    /\ outcomes = <<"RequestException", "ValueError", "ok">>
    /\ Len(sleeps) = 2
    /\ Len(ret) = 2

-----------------------------------------------------------------------------
(* Start date of a fetch                                                   *)

MonthsAgoCalled == call = "_n_months_ago"

\* the date is a date of the calendar, from year 1 (datetime.MINYEAR) on
ValidDate(d) ==
    /\ d.year >= 1
    /\ d.month \in 1..12
    /\ d.day \in 1..monthrange(d.year, d.month)

\* the date a is not later than the date b
NotLater(a, b) ==
    \/ a.year < b.year
    \/ (a.year = b.year /\ a.month < b.month)
    \/ (a.year = b.year /\ a.month = b.month /\ a.day <= b.day)

\* the years a result can name
ResultYears == (0 - (MaxMonths \div 12) - 1)..MaxYear

\* the text r is the date of the calendar month months before today, on the
\* day of today or on the last day of that month
IsMonthsAgo(r, today, months) ==
    /\ Len(r) = 10
    /\ SubSeq(r, 5, 5) = "-" /\ SubSeq(r, 8, 8) = "-"
    /\ \E y \in {n \in ResultYears : zero_padded(n, 4) = SubSeq(r, 1, 4)} :
       \E m \in {n \in 1..12 : zero_padded(n, 2) = SubSeq(r, 6, 7)} :
       \E dd \in {n \in 1..31 : zero_padded(n, 2) = SubSeq(r, 9, 10)} :
       \E d \in {[year |-> y, month |-> m, day |-> dd]} :
          /\ d.year * 12 + (d.month - 1)
                = today.year * 12 + (today.month - 1) - months
          /\ d.day = Min({today.day, monthrange(d.year, d.month)})
          /\ ValidDate(d)
          /\ NotLater(d, today)
          /\ months = 0 => d = today

\* C25 as stated: for every date (y, m, d) and every months n >= 0,
\* _n_months_ago returns the date of the calendar month exactly n months
\* before (y, m), on the day min(d, days of that month); the result is a
\* valid calendar date, is never later than the input date, and equals the
\* input date when n = 0.
C25_Original ==
    MonthsAgoCalled => IsMonthsAgo(ret, args.today, args.months)

\* C25 (amended): the same for every months n from 0 to 12 (y - 1) + (m - 1),
\* that is, as long as the target month is not before January of year 1.
C25_MonthsAgo ==
    MonthsAgoCalled /\ args.months <= 12 * (args.today.year - 1) + (args.today.month - 1)
    => IsMonthsAgo(ret, args.today, args.months)

\* thirteen months before 31 March of year 3: the 28th of February of year 2
C25_Witness ==
    /\ MonthsAgoCalled
    /\ args = [today |-> [year |-> 3, month |-> 3, day |-> 31], months |-> 13]
    /\ ret = "0002-02-28"

-----------------------------------------------------------------------------
(* check_time_gaps and missing_dates                                       *)

\* check_time_gaps was called on df, whose missing dates are m: it raised if
\* and only if m is not empty, and its failure counts the dates of m, the
\* business days of the span of df that are no dates of df
GapsAreMissing(m) ==
    /\ raised # NoError <=> m # <<>>
    /\ raised # NoError
       => /\ raised.count = Len(m)
          /\ raised.dates = Head_n(m, 5)
          /\ Range(m) = Canonical(df) \ DatesOf(df)

\* C26 as stated: for every series with a date column, check_time_gaps
\* raises if and only if missing_dates returns a non-empty list, and the
\* dates counted in the failure are exactly the dates missing_dates returns.
C26_Original ==
    call = "check_time_gaps"
    => \A r \in {missing_dates(df)} :
          r.raised = NoError /\ GapsAreMissing(r.ret)

\* C26 (amended): the same for every non-empty series with a date column (on
\* an empty series both calls raise, for want of a first and a last date).
C26_GapsAreMissingDates ==
    /\ call = "check_time_gaps" /\ df # <<>>
       => \A r \in {missing_dates(df)} :
             r.raised = NoError /\ GapsAreMissing(r.ret)
    /\ call = "missing_dates" /\ df # <<>>
       => /\ raised = NoError
          /\ ret # <<>> <=> check_time_gaps(df).raised # NoError
          /\ Range(ret) = Canonical(df) \ DatesOf(df)
    /\ call \in {"check_time_gaps", "missing_dates"} /\ df = <<>>
       => raised # NoError

\* a series from a Tuesday to the Saturday after it, without the Thursday and
\* the Friday between them (the Wednesday is a holiday): two dates counted
C26_Witness ==
    /\ call = "check_time_gaps"
    /\ raised.count = 2
    /\ Len(missing_dates(df).ret) = 2
    /\ \E x \in Canonical(df) : ~US_BD(DayOf(x) - 1) /\ DayOf(x) > 1

-----------------------------------------------------------------------------
(* Missing dates of a reindexed series                                     *)

\* the SPY file was read and cleaned in this run
SPYStageReached == "SPY" \in DOMAIN log

\* what clean_price_data made of the SPY file
SPYOut == clean_price_data(data["SPY_1min_20231027_20251027"], "SPY")

\* the drop of the spy_missing rows removes no row of the joined table
DropRemovesNothing ==
    \A J \in {join_all(spy, vix, curve_10y_2y, spread_baa_aaa)} :
        drop(J, spy_missing) = J

\* C27 as stated: missing_dates applied to any output of
\* create_rows_for_missing_dates (hence of clean_price_data) returns the empty
\* list; so spy_missing is always empty and the drop of the spy_missing rows
\* removes no row of the joined table.
C27_Original ==
    /\ SPYStageReached /\ SPYOut.raised = NoError
       => missing_dates(SPYOut.ret) = Returned(<<>>)
    /\ MergeReturned => spy_missing = <<>> /\ DropRemovesNothing

\* C27 (amended): missing_dates applied to a non-empty output of
\* create_rows_for_missing_dates (hence of clean_price_data) returns the empty
\* list, and applied to an empty output (a series without any business day)
\* it raises; so spy_missing, once assigned, is always empty and the drop of
\* the spy_missing rows removes no row of the joined table.
C27_NoMissingAfterReindex ==
    /\ SPYStageReached
       => \A o \in {SPYOut} :
            /\ o.raised = NoError /\ o.ret = <<>>
               => /\ missing_dates(o.ret).raised = ValueError(NaTMsg)
                  /\ pc = "raised" /\ raised = ValueError(NaTMsg)
            /\ o.raised = NoError /\ o.ret # <<>>
               => missing_dates(o.ret) = Returned(<<>>)
            /\ pc \in {"vix", "done"} => spy = o.ret /\ spy_missing = <<>>
    /\ MergeReturned
       => /\ DropRemovesNothing
          /\ vix # <<>> => missing_dates(vix) = Returned(<<>>)

\* a run that returned a table although the SPY file has no bar on a business
\* day inside its span: the row of that day was created, so no date is missing
C27_Witness ==
    /\ MergeReturned
    /\ SPYOriginallyMissing # {}
    /\ spy_missing = <<>>
    /\ Merged # <<>>
    /\ \E k \in 1..Len(spy) : DayOf(spy[k].index) \in SPYOriginallyMissing

-----------------------------------------------------------------------------
(* Order of the FRED series                                                *)

BaseSeries == {"DGS10", "DGS2", "BAA", "AAA"}

DerivedSeries == {"credit_spread_baa_aaa", "yield_curve_10y_2y_spread"}

\* the base series fetched before the series s
FetchedBefore(s) ==
    CASE s = "DGS10" -> {}
      [] s = "DGS2"  -> {"DGS10"}
      [] s = "BAA"   -> {"DGS10", "DGS2"}
      [] s = "AAA"   -> {"DGS10", "DGS2", "BAA"}
      [] OTHER       -> {}

\* the series of S that have a file in the raw directory
SavedOf(S) == {n \in S : (n \o ".csv") \in DOMAIN raw_dir}

\* the series of S that are entries of data
StoredOf(S) == S \cap DOMAIN data

\* every stored series is the one that was fetched or derived, and its file
\* is that series written out
StoredAsFetched ==
    /\ \A n \in StoredOf(BaseSeries) :
          /\ n \in DOMAIN frames /\ data[n] = frames[n]
          /\ raw_dir[n \o ".csv"] = to_csv(frames[n], FALSE)
    /\ \A n \in StoredOf(DerivedSeries) :
          raw_dir[n \o ".csv"] = to_csv(data[n], FALSE)
    /\ "credit_spread_baa_aaa" \in DOMAIN data
       => data["credit_spread_baa_aaa"]
            = derive_credit_spread(frames["BAA"], frames["AAA"])
    /\ "yield_curve_10y_2y_spread" \in DOMAIN data
       => data["yield_curve_10y_2y_spread"]
            = derive_10y_2y_spread(frames["DGS10"], frames["DGS2"])

\* what is saved and what is stored at each position of the call
SavedAndStored ==
    /\ fpc = "idle"
       => SavedOf(BaseSeries \cup DerivedSeries) = {} /\ DOMAIN data = {}
    /\ fpc \in {"request", "save", "raised"}
       => /\ series_id \in BaseSeries
          /\ SavedOf(BaseSeries) = FetchedBefore(series_id)
          /\ StoredOf(BaseSeries) = FetchedBefore(series_id)
          /\ SavedOf(DerivedSeries) = {} /\ StoredOf(DerivedSeries) = {}
    /\ fpc = "store"
       => /\ SavedOf(BaseSeries) = FetchedBefore(series_id) \cup {series_id}
          /\ StoredOf(BaseSeries) = FetchedBefore(series_id)
          /\ SavedOf(DerivedSeries) = {} /\ StoredOf(DerivedSeries) = {}
    /\ fpc = "credit_spread"
       => /\ SavedOf(BaseSeries) = BaseSeries
          /\ StoredOf(BaseSeries) = BaseSeries
          /\ SavedOf(DerivedSeries) = {} /\ StoredOf(DerivedSeries) = {}
    /\ fpc = "yield_curve"
       => /\ SavedOf(BaseSeries) = BaseSeries
          /\ StoredOf(BaseSeries) = BaseSeries
          /\ SavedOf(DerivedSeries) = {"credit_spread_baa_aaa"}
          /\ StoredOf(DerivedSeries) = {"credit_spread_baa_aaa"}
    /\ fpc = "done"
       => /\ SavedOf(BaseSeries) = BaseSeries
          /\ StoredOf(BaseSeries) = BaseSeries
          /\ SavedOf(DerivedSeries) = DerivedSeries
          /\ StoredOf(DerivedSeries) = DerivedSeries
          /\ ret = frames

\* a fetched series is saved in the next step and stored in the step after
\* it, and a raised call changes nothing any more
SavedRightAfterFetch ==
    /\ fpc = "save"
       => /\ fpc' = "store"
          /\ raw_dir' = setitem(raw_dir, series_id \o ".csv",
                                to_csv(ret, FALSE))
          /\ data' = data
    /\ fpc = "store"
       => /\ data' = setitem(data, series_id, ret)
          /\ raw_dir' = raw_dir
    /\ fpc = "request" => raw_dir' = raw_dir /\ data' = data
    /\ fpc = "raised" => UNCHANGED vars

\* C28: fetch_and_save_fred_data fetches the base series in the order DGS10,
\* DGS2, BAA, AAA and saves and stores each one right after its fetch; a
\* derived spread is written and stored only after all four base series were
\* fetched and saved; if the fetch of a series raises, the series before it
\* remain saved and stored and no later series and no derived spread is
\* written or stored.
C28_FetchOrder ==
    /\ [](SavedAndStored /\ StoredAsFetched)
    /\ [][SavedRightAfterFetch]_vars

\* the fetch of BAA has raised after three failed requests: DGS10 and DGS2
\* are saved and stored, nothing else is
C28_Witness ==
    /\ fpc = "raised"
    /\ series_id = "BAA"
    /\ raised.exc = "RuntimeError"
    /\ DOMAIN data = {"DGS10", "DGS2"}
    /\ DOMAIN raw_dir = {"DGS10.csv", "DGS2.csv"}
    /\ data["DGS10"] # <<>>

-----------------------------------------------------------------------------
(* Macro series whose first value is missing                               *)

CleanMacroDataCalled == call = "clean_macro_data"

FirstValueMissing == IsNull(df[1].value)

NoDateRepeats ==
    \A i, j \in 1..Len(df) :
        i # j /\ ~IsNull(df[i].date) => df[i].date # df[j].date

AnomalyMsgs == {NegativeMsg, DuplicateMsg, NullMsg}

\* C29 as stated: clean_macro_data raises ValueError and returns no series on
\* every macro series whose first row has a missing value (the forward fill
\* leaves the leading cell missing and the anomaly check fails on it); a series
\* is accepted only if its first value is present, no value is negative and
\* no date repeats.
C29_Original ==
    CleanMacroDataCalled
    => /\ FirstValueMissing
          => /\ raised.exc = "ValueError" /\ ret = None
             /\ IsNull(ffill(df)[1].value)
             /\ raised.msg \in AnomalyMsgs
       /\ raised = NoError
          => /\ ~FirstValueMissing
             /\ \A i \in 1..Len(df) : IsNull(df[i].value) \/ df[i].value >= 0
             /\ NoDateRepeats

\* C29 (amended): clean_macro_data raises ValueError and returns no series on
\* every macro series whose first row has a missing value: the forward fill
\* leaves the leading cell missing and, unless the gap check asked for with
\* check_gaps has raised before it, the anomaly check fails on it; a series is
\* accepted only if its first value is present, no value is negative once
\* divided by 100 and rounded to 7 decimals, and no date repeats.
C29_LeadingMissingRejected ==
    CleanMacroDataCalled
    => /\ FirstValueMissing
          => /\ raised.exc = "ValueError" /\ ret = None
             /\ IsNull(ffill(df)[1].value)
             /\ \/ raised.msg \in AnomalyMsgs
                \/ /\ args.check_gaps
                   /\ raised = check_time_gaps(ffill(df)).raised
       /\ raised = NoError
          => /\ ~FirstValueMissing
             /\ \A i \in 1..Len(df) :
                   IsNull(df[i].value) \/ PercentToDecimal(df[i].value) >= 0
             /\ NoDateRepeats

\* a series with a missing first value and a present second one was
\* rejected by the anomaly check for the missing cell
C29_Witness ==
    /\ CleanMacroDataCalled
    /\ FirstValueMissing
    /\ Len(df) >= 2 /\ ~IsNull(df[2].value)
    /\ raised = ValueError(NullMsg)
    /\ ret = None

=============================================================================
